---- MODULE Spec2Model ----
(***************************************************************************)
(* Model of the outreach service's campaign lifecycle                      *)
(* (services/campaignService.ts), together with the lead and workflow      *)
(* stores it is supposed to own (services/leadService.ts,                  *)
(* services/workflowService.ts) and the automation gateway                 *)
(* (integrations/GrowChiefService.ts).                                     *)
(*                                                                         *)
(* An async method runs atomically up to its first await, so a step of the *)
(* model is the code between two awaits.  A call suspended on the gateway  *)
(* is an element of the bag inflight; it keeps a reference to the campaign *)
(* object it read from the Map, which is why the objects live in heap and  *)
(* the keys of the Map in campaigns.                                       *)
(***************************************************************************)
EXTENDS Integers, Sequences, FiniteSets, Bags, TLC

\* ---------------------------------------------------------------- bounds
\* campaigns created, calls suspended at once, clock ticks, leads (and
\* workflows) created, and steps of a run
MaxCampaigns == 1
MaxCalls == 2
MaxTime == 1
MaxOwned == 1
MaxSteps == 7
\* leads created, leads in a createLeads request, steps in a validated list
MaxLeads == 2
MaxBatch == 2
MaxStepList == 2
\* steps of a run of the lead service or of the workflow service
MaxServiceSteps == 5
\* the largest rate limit, the longest window in half seconds, and steps of a run
\* of the rate limiter
MaxLimit == 2
MaxWindow == 3
MaxRateSteps == 6
\* steps of a run of pause and resume calls
MaxPauseSteps == 6
\* campaigns in a store that is listed, and the largest page and page size asked for
MaxListed == 3
MaxPage == 2
\* frames of one function the call stack holds
MaxStack == 3
\* steps of a run of pause and resume calls with the backend's own steps
MaxBackendSteps == 9

\* ---------------------------------------------------------------- inputs
Users == {"u1", "u2"}
CampaignIds == 1..MaxCampaigns
\* the ids callers ask for: an id not handed out yet, or deleted, does not exist
RequestIds == CampaignIds

Absent == "absent"
Unset == <<>>

\* CreateCampaignRequest values the callers send
CreateInputs ==
  { [name |-> "n1", description |-> Absent, platform |-> "linkedin",
     settings |-> [maxConnectionsPerDay |-> "50", delayBetweenActions |-> "5000"]] }

\* Partial<CreateCampaignRequest> values the callers send
UpdateInputs ==
  { [name |-> "n2", description |-> Absent, platform |-> Absent, settings |-> <<>>],
    [name |-> "", description |-> "d2", platform |-> "twitter",
     settings |-> [maxConnectionsPerDay |-> "10"]] }

VARIABLES
  now,         \* the clock read by new Date()
  campaigns,   \* keys of CampaignService.campaigns
  heap,        \* the Campaign objects, by id, that the Map or a suspended call refers to
  nextCampaign,\* number of campaign ids handed out by uuidv4
  inflight,    \* bag of calls suspended on an await of the gateway
  executed,    \* campaign ids for which executeCampaign has succeeded
  everActive,  \* campaign ids whose stored status has been active
  leads,       \* LeadService.leads: lead id -> Lead
  workflows,   \* WorkflowService.workflows: workflow id -> Workflow
  detachedLeads,     \* Lead objects deleted from the Map that a suspended call still holds
  nextLead,          \* number of lead ids handed out by uuidv4
  detachedWorkflows, \* Workflow objects deleted from the Map that a suspended call still holds
  nextWorkflow,      \* number of workflow ids handed out by uuidv4
  givenSteps,  \* the argument of a validateWorkflowSteps call
  validation,  \* what that call returned
  steps,       \* number of steps taken, which the model caps at MaxSteps
  last,        \* the step just taken and what it returned to its caller
  requestCounts,   \* the rate limiter's Map: client id -> [count, resetTime]
  RATE_LIMIT,      \* requests allowed per window, read from the environment at load
  RATE_WINDOW_MS,  \* length of a window in milliseconds, read likewise
  history      \* the steps taken so far with the time of each, where a run records them

leadVars == <<leads, detachedLeads, nextLead>>

workflowVars == <<workflows, detachedWorkflows, nextWorkflow>>

pureVars == <<givenSteps, validation>>

rateVars == <<requestCounts, RATE_LIMIT, RATE_WINDOW_MS>>

campaignVars == <<campaigns, heap, nextCampaign, executed, everActive>>

vars == <<now, campaignVars, inflight, leadVars, workflowVars, pureVars, steps, last, rateVars,
          history>>

\* ---------------------------------------------------------------- enums
DRAFT == "draft"
ACTIVE == "active"
PAUSED == "paused"
COMPLETED == "completed"
CANCELLED == "cancelled"
CampaignStatus == {DRAFT, ACTIVE, PAUSED, COMPLETED, CANCELLED}

PENDING == "pending"

\* ---------------------------------------------------------------- helpers
\* what a step reports: the operation and its arguments, whether the step is the
\* call itself or its continuation after the await ("settle"), what it returned
\* or threw ("pending" while suspended), the error message, and the gateway
\* request it issued or, in a continuation, how that request ended
Report(op, step, u, c, result, msg, issued) ==
  [op |-> op, step |-> step, user |-> u, cid |-> c, result |-> result, msg |-> msg,
   issued |-> issued]

\* `Cannot ${op} campaign with status: ${status}`
PreconditionMessage(op, status) == <<"Cannot", op, "campaign with status:", status>>

NotFoundMessage == <<"Campaign not found">>

\* getErrorMessage calls itself on every Error instance, so the catch block
\* of a gateway method never builds its own message: the stack overflows and
\* the RangeError is what leaves the method
StackOverflow == "Maximum call stack size exceeded"

\* the timeout the services configure their gateway with, in milliseconds;
\* makeRequest does not pass it to fetch
GatewayTimeoutMs == 30000

\* the values a catch block may be handed: an Error (what fetch and
\* makeRequest throw), a string, or anything else
FetchFailed == [kind |-> "Error", message |-> "fetch failed"]

ErrorValues == {FetchFailed, [kind |-> "string", message |-> "boom"], [kind |-> "other", message |-> ""]}

Returned(message) == [threw |-> FALSE, message |-> message]

\* the RangeError of a call stack that is full
RangeError == [threw |-> TRUE, message |-> StackOverflow]

\* getErrorMessage with depth frames of it on the stack: what it returns or throws
RECURSIVE getErrorMessageAt(_, _)
getErrorMessageAt(error, depth) ==
  IF depth > MaxStack THEN RangeError
  ELSE IF error.kind = "Error" THEN getErrorMessageAt(error, depth + 1)
  ELSE IF error.kind = "string" THEN Returned(error.message)
  ELSE Returned("An unknown error occurred")

getErrorMessage(error) == getErrorMessageAt(error, 1)

\* the message of the error a failed gateway method throws: its catch block
\* calls getErrorMessage on the Error of makeRequest before it builds its own
GatewayMessage(op) == <<getErrorMessage(FetchFailed).message>>

\* `Failed to start campaign: ${error.message}`
StartFailedMessage == <<"Failed to start campaign:">> \o GatewayMessage("execute")

\* mutant: the owner is not compared
NotFoundNoOwner(u, c) == c \notin campaigns

\* !campaign || campaign.userId !== userId
NotFound(u, c) == c \notin campaigns \/ heap[c].userId # u

\* objects nobody refers to any more are collected
Referenced(keys, calls) == keys \cup { call.cid : call \in BagToSet(calls) }

Collect(h, keys, calls) ==
  [c \in (DOMAIN h) \cap Referenced(keys, calls) |-> h[c]]

\* the ids whose stored status is active are remembered
Seen(h, keys) == everActive \cup { c \in keys : h[c].status = ACTIVE }

Call(op, u, c, pre) == [op |-> op, user |-> u, cid |-> c, pre |-> pre]

Suspend(call) == inflight (+) SetToBag({call})

Settle(call) == inflight (-) SetToBag({call})

\* validateWorkflowSteps has not been called
NotRun == <<>>

\* the services as constructed: empty Maps, nothing in flight
Constructed ==
  /\ now = 0
  /\ campaigns = {}
  /\ heap = <<>>
  /\ nextCampaign = 0
  /\ inflight = EmptyBag
  /\ executed = {}
  /\ everActive = {}
  /\ leads = <<>>
  /\ detachedLeads = <<>>
  /\ nextLead = 0
  /\ workflows = <<>>
  /\ detachedWorkflows = <<>>
  /\ nextWorkflow = 0
  /\ validation = NotRun
  /\ steps = 0
  /\ last = Report("init", "call", "u1", 0, "ok", <<>>, "none")
  /\ requestCounts = <<>>
  /\ history = <<>>

\* the rate limiter's settings when the environment does not give them
Configured ==
  /\ RATE_LIMIT = 100
  /\ RATE_WINDOW_MS = 900000

Init ==
  /\ Constructed
  /\ Configured
  /\ givenSteps = <<>>

\* ---------------------------------------------------------------- clock
Tick ==
  /\ now < MaxTime
  /\ now' = now + 1
  /\ last' = Report("tick", "call", "u1", 0, "ok", <<>>, "none")
  /\ UNCHANGED <<campaigns, heap, nextCampaign, inflight, executed, everActive,
                 leadVars, workflowVars, pureVars, rateVars>>

\* ---------------------------------------------------------------- createCampaign
\* mutant: the description is stored as the name and the name as the description
NewCampaignSwapped(id, u, data, t) ==
  [id |-> id, userId |-> u, name |-> data.description, description |-> data.name,
   status |-> DRAFT, platform |-> data.platform, settings |-> data.settings,
   createdAt |-> t, updatedAt |-> t, startedAt |-> Unset]

NewCampaign(id, u, data, t) ==
  [id |-> id, userId |-> u, name |-> data.name, description |-> data.description,
   status |-> DRAFT, platform |-> data.platform, settings |-> data.settings,
   createdAt |-> t, updatedAt |-> t, startedAt |-> Unset]

CreateCampaign(u, data) ==
  /\ nextCampaign < MaxCampaigns
  /\ LET id == nextCampaign + 1 IN
       /\ nextCampaign' = id
       /\ heap' = (id :> NewCampaign(id, u, data, now)) @@ heap
       /\ campaigns' = campaigns \cup {id}
       /\ last' = Report("createCampaign", "call", u, id, "ok", <<>>, "none")
  /\ UNCHANGED <<now, inflight, executed, everActive, leadVars, workflowVars, pureVars, rateVars>>

\* ---------------------------------------------------------------- getCampaignById
GetCampaignById(u, c) ==
  /\ last' = IF NotFound(u, c)
               THEN Report("getCampaignById", "call", u, c, "null", <<>>, "none")
               ELSE Report("getCampaignById", "call", u, c, "campaign", <<>>, "none")
  /\ UNCHANGED <<now, campaigns, heap, nextCampaign, inflight, executed, everActive,
                 leadVars, workflowVars, pureVars, rateVars>>

\* ---------------------------------------------------------------- updateCampaign
\* { ...campaign.settings, ...updateData.settings }
MergeSettings(old, new) == new @@ old

\* mutant: the new name is assigned to userId instead of name
ApplyUpdateWrongField(campaign, updateData, t) ==
  [campaign EXCEPT
     !.userId = IF updateData.name # Absent /\ updateData.name # ""
                  THEN updateData.name ELSE @,
     !.description = IF updateData.description # Absent
                       THEN updateData.description ELSE @,
     !.platform = IF updateData.platform # Absent THEN updateData.platform ELSE @,
     !.settings = MergeSettings(@, updateData.settings),
     !.updatedAt = t]

ApplyUpdate(campaign, updateData, t) ==
  [campaign EXCEPT
     !.name = IF updateData.name # Absent /\ updateData.name # ""
                THEN updateData.name ELSE @,
     !.description = IF updateData.description # Absent
                       THEN updateData.description ELSE @,
     !.platform = IF updateData.platform # Absent THEN updateData.platform ELSE @,
     !.settings = MergeSettings(@, updateData.settings),
     !.updatedAt = t]

UpdateCampaign(u, c, updateData) ==
  /\ IF NotFound(u, c)
       THEN /\ last' = Report("updateCampaign", "call", u, c, "null", <<>>, "none")
            /\ UNCHANGED <<campaigns, heap>>
       ELSE /\ heap' = [heap EXCEPT ![c] = ApplyUpdate(@, updateData, now)]
            /\ campaigns' = campaigns \cup {c}
            /\ last' = Report("updateCampaign", "call", u, c, "campaign", <<>>, "none")
  /\ UNCHANGED <<now, nextCampaign, inflight, executed, everActive, leadVars, workflowVars, pureVars, rateVars>>

\* ---------------------------------------------------------------- deleteCampaign
\* this.campaigns.delete(campaignId); return true
RemoveCampaign(keys, c) == keys \ {c}

\* up to the await of cancelCampaign, or to the end when the campaign is not active
DeleteCampaign(u, c) ==
  /\ IF NotFound(u, c)
       THEN /\ last' = Report("deleteCampaign", "call", u, c, "false", <<>>, "none")
            /\ UNCHANGED <<campaigns, heap, inflight>>
       ELSE IF heap[c].status = ACTIVE
         THEN /\ BagCardinality(inflight) < MaxCalls
              /\ inflight' = Suspend(Call("deleteCampaign", u, c, <<>>))
              /\ last' = Report("deleteCampaign", "call", u, c, "pending", <<>>, "cancelCampaign")
              /\ UNCHANGED <<campaigns, heap>>
         ELSE /\ campaigns' = RemoveCampaign(campaigns, c)
              /\ heap' = Collect(heap, campaigns', inflight)
              /\ last' = Report("deleteCampaign", "call", u, c, "true", <<>>, "none")
              /\ UNCHANGED inflight
  /\ UNCHANGED <<now, nextCampaign, executed, everActive, leadVars, workflowVars, pureVars, rateVars>>

\* mutant: a failed cancel blocks the deletion
AfterCancelStrict(keys, c, ok) == IF ok THEN RemoveCampaign(keys, c) ELSE keys

\* try { await cancelCampaign } catch { log }; this.campaigns.delete(campaignId)
AfterCancel(keys, c, ok) == RemoveCampaign(keys, c)

\* cancelCampaign has returned (ok) or thrown (caught and logged): the campaign is removed
DeleteCampaignDone(call, ok) ==
  /\ BagIn(call, inflight)
  /\ call.op = "deleteCampaign"
  /\ inflight' = Settle(call)
  /\ campaigns' = AfterCancel(campaigns, call.cid, ok)
  /\ heap' = Collect(heap, campaigns', inflight')
  /\ last' = Report("deleteCampaign", "settle", call.user, call.cid, "true", <<>>,
                    IF ok THEN "returned" ELSE "threw")
  /\ UNCHANGED <<now, nextCampaign, executed, everActive, leadVars, workflowVars, pureVars, rateVars>>

\* ---------------------------------------------------------------- startCampaign
\* mutant: startedAt is not written
MarkStartedNoDate(campaign, t) == [campaign EXCEPT !.status = ACTIVE, !.updatedAt = t]

\* mutant: active is written only after the await
MarkStartedLate(campaign, t) == campaign

\* status = ACTIVE; startedAt = new Date(); updatedAt = new Date()
MarkStarted(campaign, t) ==
  [campaign EXCEPT !.status = ACTIVE, !.startedAt = <<t>>, !.updatedAt = t]

\* mutant: startedAt is not cleared
RevertStartKeepsDate(campaign, t) == [campaign EXCEPT !.status = DRAFT, !.updatedAt = t]

\* status = DRAFT; startedAt = undefined; updatedAt = new Date()
RevertStart(campaign, t) ==
  [campaign EXCEPT !.status = DRAFT, !.startedAt = Unset, !.updatedAt = t]

\* mutant: a paused campaign may be started again
StartRefusedLoose(campaign) == campaign.status \notin {DRAFT, PAUSED}

\* campaign.status !== CampaignStatus.DRAFT
StartRefused(campaign) == campaign.status # DRAFT

\* up to the await of executeCampaign
StartCampaign(u, c) ==
  /\ IF NotFound(u, c)
       THEN /\ last' = Report("startCampaign", "call", u, c, "error", NotFoundMessage, "none")
            /\ UNCHANGED <<campaigns, heap, inflight, everActive>>
       ELSE IF StartRefused(heap[c])
         THEN /\ last' = Report("startCampaign", "call", u, c, "error",
                                PreconditionMessage("start", heap[c].status), "none")
              /\ UNCHANGED <<campaigns, heap, inflight, everActive>>
         ELSE /\ BagCardinality(inflight) < MaxCalls
              /\ heap' = [heap EXCEPT ![c] = MarkStarted(@, now)]
              /\ campaigns' = campaigns \cup {c}
              /\ inflight' = Suspend(Call("startCampaign", u, c, <<heap[c]>>))
              /\ everActive' = Seen(heap', campaigns')
              /\ last' = Report("startCampaign", "call", u, c, "pending", <<>>, "executeCampaign")
  /\ UNCHANGED <<now, nextCampaign, executed, leadVars, workflowVars, pureVars, rateVars>>

\* executeCampaign returned
StartCampaignOk(call) ==
  /\ BagIn(call, inflight)
  /\ call.op = "startCampaign"
  /\ inflight' = Settle(call)
  /\ executed' = executed \cup {call.cid}
  /\ heap' = Collect(heap, campaigns, inflight')
  /\ last' = Report("startCampaign", "settle", call.user, call.cid, "ok", <<>>, "returned")
  /\ UNCHANGED <<now, campaigns, nextCampaign, everActive, leadVars, workflowVars, pureVars, rateVars>>

\* executeCampaign threw: the catch block reverts, stores and rethrows
StartCampaignFailed(call) ==
  /\ BagIn(call, inflight)
  /\ call.op = "startCampaign"
  /\ inflight' = Settle(call)
  /\ campaigns' = campaigns \cup {call.cid}
  /\ heap' = Collect([heap EXCEPT ![call.cid] = RevertStart(@, now)], campaigns', inflight')
  /\ everActive' = Seen(heap', campaigns')
  /\ last' = Report("startCampaign", "settle", call.user, call.cid, "error", StartFailedMessage,
                    "threw")
  /\ UNCHANGED <<now, nextCampaign, executed, leadVars, workflowVars, pureVars, rateVars>>

\* ---------------------------------------------------------------- pauseCampaign
\* mutant: only an already paused campaign is refused
PauseRefusedLoose(campaign) == campaign.status = PAUSED

\* campaign.status !== CampaignStatus.ACTIVE
PauseRefused(campaign) == campaign.status # ACTIVE

\* status = PAUSED; updatedAt = new Date()
MarkPaused(campaign, t) == [campaign EXCEPT !.status = PAUSED, !.updatedAt = t]

\* mutant: paused is written before the gateway is asked, as start does
PauseCampaignEager(u, c) ==
  /\ IF NotFound(u, c)
       THEN /\ last' = Report("pauseCampaign", "call", u, c, "error", NotFoundMessage, "none")
            /\ UNCHANGED <<heap, inflight>>
       ELSE IF PauseRefused(heap[c])
         THEN /\ last' = Report("pauseCampaign", "call", u, c, "error",
                                PreconditionMessage("pause", heap[c].status), "none")
              /\ UNCHANGED <<heap, inflight>>
         ELSE /\ BagCardinality(inflight) < MaxCalls
              /\ heap' = [heap EXCEPT ![c] = MarkPaused(@, now)]
              /\ inflight' = Suspend(Call("pauseCampaign", u, c, <<>>))
              /\ last' = Report("pauseCampaign", "call", u, c, "pending", <<>>, "pauseCampaign")
  /\ UNCHANGED <<now, campaigns, nextCampaign, executed, everActive, leadVars, workflowVars, pureVars, rateVars>>

\* up to the await of growChiefService.pauseCampaign
PauseCampaign(u, c) ==
  /\ IF NotFound(u, c)
       THEN /\ last' = Report("pauseCampaign", "call", u, c, "error", NotFoundMessage, "none")
            /\ UNCHANGED inflight
       ELSE IF PauseRefused(heap[c])
         THEN /\ last' = Report("pauseCampaign", "call", u, c, "error",
                                PreconditionMessage("pause", heap[c].status), "none")
              /\ UNCHANGED inflight
         ELSE /\ BagCardinality(inflight) < MaxCalls
              /\ inflight' = Suspend(Call("pauseCampaign", u, c, <<>>))
              /\ last' = Report("pauseCampaign", "call", u, c, "pending", <<>>, "pauseCampaign")
  /\ UNCHANGED <<now, campaigns, heap, nextCampaign, executed, everActive, leadVars, workflowVars, pureVars, rateVars>>

PauseCampaignOk(call) ==
  /\ BagIn(call, inflight)
  /\ call.op = "pauseCampaign"
  /\ inflight' = Settle(call)
  /\ campaigns' = campaigns \cup {call.cid}
  /\ heap' = Collect([heap EXCEPT ![call.cid] = MarkPaused(@, now)], campaigns', inflight')
  /\ everActive' = Seen(heap', campaigns')
  /\ last' = Report("pauseCampaign", "settle", call.user, call.cid, "ok", <<>>, "returned")
  /\ UNCHANGED <<now, nextCampaign, executed, leadVars, workflowVars, pureVars, rateVars>>

\* mutant: the failure is caught and logged as deleteCampaign does, and the
\* call returns
PauseCampaignSwallowed(call) ==
  /\ BagIn(call, inflight)
  /\ call.op = "pauseCampaign"
  /\ inflight' = Settle(call)
  /\ heap' = Collect(heap, campaigns, inflight')
  /\ last' = Report("pauseCampaign", "settle", call.user, call.cid, "ok", <<>>, "threw")
  /\ UNCHANGED <<now, campaigns, nextCampaign, executed, everActive, leadVars, workflowVars, pureVars, rateVars>>

\* the gateway threw and nothing catches it: the call ends there
PauseCampaignFailed(call) ==
  /\ BagIn(call, inflight)
  /\ call.op = "pauseCampaign"
  /\ inflight' = Settle(call)
  /\ heap' = Collect(heap, campaigns, inflight')
  /\ last' = Report("pauseCampaign", "settle", call.user, call.cid, "error",
                    GatewayMessage("pause"), "threw")
  /\ UNCHANGED <<now, campaigns, nextCampaign, executed, everActive, leadVars, workflowVars, pureVars, rateVars>>

\* ---------------------------------------------------------------- resumeCampaign
\* campaign.status !== CampaignStatus.PAUSED
ResumeRefused(campaign) == campaign.status # PAUSED

\* status = ACTIVE; updatedAt = new Date()
MarkResumed(campaign, t) == [campaign EXCEPT !.status = ACTIVE, !.updatedAt = t]

\* up to the await of growChiefService.resumeCampaign
ResumeCampaign(u, c) ==
  /\ IF NotFound(u, c)
       THEN /\ last' = Report("resumeCampaign", "call", u, c, "error", NotFoundMessage, "none")
            /\ UNCHANGED inflight
       ELSE IF ResumeRefused(heap[c])
         THEN /\ last' = Report("resumeCampaign", "call", u, c, "error",
                                PreconditionMessage("resume", heap[c].status), "none")
              /\ UNCHANGED inflight
         ELSE /\ BagCardinality(inflight) < MaxCalls
              /\ inflight' = Suspend(Call("resumeCampaign", u, c, <<>>))
              /\ last' = Report("resumeCampaign", "call", u, c, "pending", <<>>, "resumeCampaign")
  /\ UNCHANGED <<now, campaigns, heap, nextCampaign, executed, everActive, leadVars, workflowVars, pureVars, rateVars>>

ResumeCampaignOk(call) ==
  /\ BagIn(call, inflight)
  /\ call.op = "resumeCampaign"
  /\ inflight' = Settle(call)
  /\ campaigns' = campaigns \cup {call.cid}
  /\ heap' = Collect([heap EXCEPT ![call.cid] = MarkResumed(@, now)], campaigns', inflight')
  /\ everActive' = Seen(heap', campaigns')
  /\ last' = Report("resumeCampaign", "settle", call.user, call.cid, "ok", <<>>, "returned")
  /\ UNCHANGED <<now, nextCampaign, executed, leadVars, workflowVars, pureVars, rateVars>>

ResumeCampaignFailed(call) ==
  /\ BagIn(call, inflight)
  /\ call.op = "resumeCampaign"
  /\ inflight' = Settle(call)
  /\ heap' = Collect(heap, campaigns, inflight')
  /\ last' = Report("resumeCampaign", "settle", call.user, call.cid, "error",
                    GatewayMessage("resume"), "threw")
  /\ UNCHANGED <<now, campaigns, nextCampaign, executed, everActive, leadVars, workflowVars, pureVars, rateVars>>

\* ---------------------------------------------------------------- workflow steps
FAILED == "failed"
WorkflowStatus == {DRAFT, ACTIVE, PAUSED, COMPLETED, FAILED}

WorkflowStepType ==
  {"connect", "message", "follow_up", "view_profile", "like_post", "comment"}

\* a WorkflowStep as the service receives it: id and type are strings ("" when
\* missing), config is given by what it is (an object, null, or a string)
WorkflowStep(id, type, config, order) ==
  [id |-> id, type |-> type, config |-> config, order |-> order]

\* !step.config || typeof step.config !== 'object'
Falsy(config) == config \in {"null", ""}

TypeOf(config) == IF config \in {"object", "null"} THEN "object" ELSE "string"

\* an entry of errors: `Step ${index + 1} ${text}`, index 0 for the whole list
StepError(index, text) == [step |-> index, text |-> text]

\* orders.length !== new Set(orders).size
DuplicateOrders(list) ==
  Len(list) # Cardinality({ list[i].order : i \in DOMAIN list })

\* mutant: a step with a problem gets one error, the first that applies
FirstCheckOnly(step, index) ==
  IF step.id = "" THEN <<StepError(index, "must have an ID")>>
  ELSE IF step.type = "" \/ step.type \notin WorkflowStepType
    THEN <<StepError(index, "must have a valid type")>>
  ELSE IF step.order < 1
    THEN <<StepError(index, "must have an order greater than 0")>>
  ELSE IF Falsy(step.config) \/ TypeOf(step.config) # "object"
    THEN <<StepError(index, "must have a valid config object")>>
  ELSE <<>>

\* the body of steps.forEach((step, index) => ...), index counted from 1
CheckStep(step, index) ==
  (IF step.id = "" THEN <<StepError(index, "must have an ID")>> ELSE <<>>)
  \o (IF step.type = "" \/ step.type \notin WorkflowStepType
        THEN <<StepError(index, "must have a valid type")>> ELSE <<>>)
  \o (IF step.order < 1
        THEN <<StepError(index, "must have an order greater than 0")>> ELSE <<>>)
  \o (IF Falsy(step.config) \/ TypeOf(step.config) # "object"
        THEN <<StepError(index, "must have a valid config object")>> ELSE <<>>)

RECURSIVE CheckSteps(_, _)
CheckSteps(list, index) ==
  IF index > Len(list) THEN <<>>
  ELSE CheckStep(list[index], index) \o CheckSteps(list, index + 1)

validateWorkflowSteps(list) ==
  IF Len(list) = 0
    THEN [valid |-> FALSE,
          errors |-> <<StepError(0, "Workflow must have at least one step")>>]
    ELSE LET errors ==
               (IF DuplicateOrders(list)
                  THEN <<StepError(0, "Step orders must be unique")>> ELSE <<>>)
               \o CheckSteps(list, 1)
         IN [valid |-> Len(errors) = 0, errors |-> errors]

\* the step values and lists a caller of validateWorkflowSteps passes
StepValues ==
  { WorkflowStep(id, type, config, order) :
      id \in {"s", ""}, type \in {"connect", "bogus"},
      config \in {"object", "null"}, order \in {0, 1, 2} }

RECURSIVE StepLists(_)
StepLists(n) ==
  IF n = 0 THEN {<<>>}
  ELSE StepLists(n - 1)
       \cup { Append(list, step) : list \in { l \in StepLists(n - 1) : Len(l) = n - 1 },
                                   step \in StepValues }

\* the call of the pure function
ValidateWorkflowSteps ==
  /\ validation = NotRun
  /\ validation' = <<validateWorkflowSteps(givenSteps)>>
  /\ last' = Report("validateWorkflowSteps", "call", "u1", 0,
                    IF validateWorkflowSteps(givenSteps).valid THEN "valid" ELSE "invalid",
                    <<>>, "none")
  /\ UNCHANGED <<now, campaignVars, inflight, leadVars, workflowVars, givenSteps, steps,
                 rateVars, history>>

InitValidate ==
  /\ Constructed
  /\ Configured
  /\ givenSteps \in StepLists(MaxStepList)

NextValidate == ValidateWorkflowSteps

SpecValidate == InitValidate /\ [][NextValidate]_vars

\* ---------------------------------------------------------------- lead service
PROCESSING == "processing"
CONNECTED == "connected"
MESSAGED == "messaged"
REPLIED == "replied"
SKIPPED == "skipped"
LeadStatus == {PENDING, PROCESSING, CONNECTED, MESSAGED, REPLIED, FAILED, SKIPPED}

LeadIds == 1..MaxLeads

\* the campaign id the callers of the lead and workflow services pass: the
\* services store it and hand it to the gateway without looking at it
GivenCampaign == 1

\* metadata that was not given
NoMetadata == [k \in {} |-> ""]

\* CreateLeadRequest values the callers send; the second carries a status,
\* which is not a field of the request type
LeadInputs ==
  { [email |-> "a@x", name |-> Absent, company |-> Absent, profileUrl |-> Absent,
     metadata |-> NoMetadata, status |-> Absent],
    [email |-> Absent, name |-> "n", company |-> "co", profileUrl |-> Absent,
     metadata |-> [k \in {"k"} |-> "v"], status |-> REPLIED] }

\* Partial<CreateLeadRequest & { status }> values the callers send
LeadUpdates ==
  { [email |-> Absent, name |-> "m", company |-> Absent, profileUrl |-> Absent,
     metadata |-> [k \in {"k2"} |-> "v2"], status |-> CONNECTED],
    [email |-> Absent, name |-> Absent, company |-> Absent, profileUrl |-> Absent,
     metadata |-> NoMetadata, status |-> PENDING] }

\* the leadsData arrays the callers send
RECURSIVE Batches(_)
Batches(n) ==
  IF n = 0 THEN {<<>>}
  ELSE Batches(n - 1)
       \cup { Append(b, data) : b \in { x \in Batches(n - 1) : Len(x) = n - 1 },
                                data \in LeadInputs }

\* mutant: the request is spread into the lead, so a status in it wins
NewLeadSpread(id, c, data, t) ==
  [id |-> id, campaignId |-> c, email |-> data.email, name |-> data.name,
   company |-> data.company, profileUrl |-> data.profileUrl,
   status |-> IF data.status # Absent THEN data.status ELSE PENDING,
   metadata |-> data.metadata, createdAt |-> t, updatedAt |-> t]

NewLead(id, c, data, t) ==
  [id |-> id, campaignId |-> c, email |-> data.email, name |-> data.name,
   company |-> data.company, profileUrl |-> data.profileUrl, status |-> PENDING,
   metadata |-> data.metadata, createdAt |-> t, updatedAt |-> t]

\* the ids that suspended createLeads calls will still ask for
RECURSIVE Reserved(_)
Reserved(calls) ==
  IF calls = {} THEN 0
  ELSE LET call == CHOOSE k \in calls : TRUE IN
         (IF call.op = "createLeads"
            THEN Len(call.pre[1]) - Len(call.pre[2]) - 1 ELSE 0)
         + Reserved(calls \ {call})

\* LeadService.createLead: the campaign id is taken as given
CreateLead(c, data) ==
  /\ nextLead + Reserved(BagToSet(inflight)) < MaxLeads
  /\ LET id == nextLead + 1 IN
       /\ nextLead' = id
       /\ leads' = (id :> NewLead(id, c, data, now)) @@ leads
       /\ last' = Report("createLead", "call", "u1", id, "ok", <<>>, "none")
  /\ UNCHANGED <<now, campaignVars, inflight, detachedLeads, workflowVars, pureVars, rateVars>>

\* ---------------------------------------------------------------- createLeads
\* the call up to its first await: nothing to do, or the first lead is created
CreateLeads(c, leadsData) ==
  /\ IF leadsData = <<>>
       THEN /\ last' = Report("createLeads", "call", "u1", c, <<>>, <<>>, "none")
            /\ UNCHANGED <<leads, nextLead, inflight>>
       ELSE /\ BagCardinality(inflight) < MaxCalls
            /\ nextLead + Reserved(BagToSet(inflight)) + Len(leadsData) <= MaxLeads
            /\ LET id == nextLead + 1 IN
                 /\ nextLead' = id
                 /\ leads' = (id :> NewLead(id, c, leadsData[1], now)) @@ leads
                 /\ inflight' = Suspend(Call("createLeads", "u1", c, <<leadsData, <<>>, id>>))
            /\ last' = Report("createLeads", "call", "u1", c, "pending", <<>>, "none")
  /\ UNCHANGED <<now, campaignVars, detachedLeads, workflowVars, pureVars, rateVars>>

\* after an await: the lead is pushed, then the next one is created or the
\* array is returned
CreateLeadsNext(call) ==
  /\ BagIn(call, inflight)
  /\ call.op = "createLeads"
  /\ LET leadsData == call.pre[1]
         created == Append(call.pre[2], call.pre[3])
         id == nextLead + 1
     IN IF Len(created) = Len(leadsData)
          THEN /\ inflight' = Settle(call)
               /\ last' = Report("createLeads", "settle", "u1", call.cid, created, <<>>, "none")
               /\ UNCHANGED <<leads, nextLead>>
          ELSE /\ nextLead' = id
               /\ leads' = (id :> NewLead(id, call.cid, leadsData[Len(created) + 1], now))
                             @@ leads
               /\ inflight' = Settle(call)
                                (+) SetToBag({Call("createLeads", "u1", call.cid,
                                                   <<leadsData, created, id>>)})
               /\ last' = Report("createLeads", "settle", "u1", call.cid, "pending", <<>>,
                                 "none")
  /\ UNCHANGED <<now, campaignVars, detachedLeads, workflowVars, pureVars, rateVars>>

\* ---------------------------------------------------------------- updateLead
\* !lead
LeadNotFound(l) == l \notin DOMAIN leads

LeadNotFoundMessage == <<"Lead not found">>

ApplyLeadUpdate(lead, updateData, t) ==
  [lead EXCEPT
     !.email = IF updateData.email # Absent THEN updateData.email ELSE @,
     !.name = IF updateData.name # Absent THEN updateData.name ELSE @,
     !.company = IF updateData.company # Absent THEN updateData.company ELSE @,
     !.profileUrl = IF updateData.profileUrl # Absent THEN updateData.profileUrl ELSE @,
     !.metadata = MergeSettings(@, updateData.metadata),
     !.status = IF updateData.status # Absent THEN updateData.status ELSE @,
     !.updatedAt = t]

UpdateLead(l, updateData) ==
  /\ IF LeadNotFound(l)
       THEN /\ last' = Report("updateLead", "call", "u1", l, "null", <<>>, "none")
            /\ UNCHANGED leads
       ELSE /\ leads' = [leads EXCEPT ![l] = ApplyLeadUpdate(@, updateData, now)]
            /\ last' = Report("updateLead", "call", "u1", l, "lead", <<>>, "none")
  /\ UNCHANGED <<now, campaignVars, inflight, detachedLeads, nextLead, workflowVars, pureVars, rateVars>>

\* ---------------------------------------------------------------- deleteLead
\* the leads that a suspended processLead holds a reference to
HeldLeads(calls) ==
  { call.cid : call \in { k \in BagToSet(calls) : k.op = "processLead" } }

\* the object with this id: the Map's, or the one a suspended call still holds
LeadObject(l) == IF l \in DOMAIN leads THEN leads[l] ELSE detachedLeads[l]

\* deleted objects that no suspended call holds any more are collected
ReleaseLeads(detached, keys, calls) ==
  [l \in (DOMAIN detached) \cap (HeldLeads(calls) \ keys) |-> detached[l]]

DeleteLead(l) ==
  /\ IF LeadNotFound(l)
       THEN /\ last' = Report("deleteLead", "call", "u1", l, "false", <<>>, "none")
            /\ UNCHANGED <<leads, detachedLeads>>
       ELSE /\ leads' = [k \in DOMAIN leads \ {l} |-> leads[k]]
            /\ detachedLeads' =
                 ReleaseLeads((l :> leads[l]) @@ detachedLeads, DOMAIN leads', inflight)
            /\ last' = Report("deleteLead", "call", "u1", l, "true", <<>>, "none")
  /\ UNCHANGED <<now, campaignVars, inflight, nextLead, workflowVars, pureVars, rateVars>>

\* ---------------------------------------------------------------- processLead
\* mutant: only a lead already being processed is refused
ProcessRefusedLoose(lead) == lead.status = PROCESSING

\* lead.status !== LeadStatus.PENDING
ProcessRefused(lead) == lead.status # PENDING

\* `Cannot process lead with status: ${lead.status}`
LeadPreconditionMessage(status) == <<"Cannot process lead with status:", status>>

\* mutant: the status is not written before the await
MarkProcessingMissing(lead, t) == [lead EXCEPT !.updatedAt = t]

\* status = PROCESSING; updatedAt = new Date()
MarkProcessing(lead, t) == [lead EXCEPT !.status = PROCESSING, !.updatedAt = t]

\* mutant: the catch block rethrows without reverting
RevertProcessMissing(lead, t) == lead

\* status = PENDING; updatedAt = new Date()
RevertProcess(lead, t) == [lead EXCEPT !.status = PENDING, !.updatedAt = t]

\* `Failed to process lead: ${error.message}`
ProcessFailedMessage == <<"Failed to process lead:">> \o GatewayMessage("addLeads")

\* up to the await of growChiefService.addLeads(lead.campaignId, [lead])
ProcessLead(l) ==
  /\ IF LeadNotFound(l)
       THEN /\ last' = Report("processLead", "call", "u1", l, "error",
                              LeadNotFoundMessage, "none")
            /\ UNCHANGED <<leads, inflight>>
       ELSE IF ProcessRefused(leads[l])
         THEN /\ last' = Report("processLead", "call", "u1", l, "error",
                                LeadPreconditionMessage(leads[l].status), "none")
              /\ UNCHANGED <<leads, inflight>>
         ELSE /\ BagCardinality(inflight) < MaxCalls
              /\ leads' = [leads EXCEPT ![l] = MarkProcessing(@, now)]
              /\ inflight' = Suspend(Call("processLead", "u1", l, <<l>>))
              /\ last' = Report("processLead", "call", "u1", l, "pending", <<>>, "addLeads")
  /\ UNCHANGED <<now, campaignVars, detachedLeads, nextLead, workflowVars, pureVars, rateVars>>

\* addLeads returned
ProcessLeadOk(call) ==
  /\ BagIn(call, inflight)
  /\ call.op = "processLead"
  /\ inflight' = Settle(call)
  /\ detachedLeads' = ReleaseLeads(detachedLeads, DOMAIN leads, inflight')
  /\ last' = Report("processLead", "settle", "u1", call.cid, "ok", <<>>, "returned")
  /\ UNCHANGED <<now, campaignVars, leads, nextLead, workflowVars, pureVars, rateVars>>

\* addLeads threw: the catch block reverts, stores and rethrows
ProcessLeadFailed(call) ==
  /\ BagIn(call, inflight)
  /\ call.op = "processLead"
  /\ inflight' = Settle(call)
  /\ leads' = (call.cid :> RevertProcess(LeadObject(call.cid), now)) @@ leads
  /\ detachedLeads' = ReleaseLeads(detachedLeads, DOMAIN leads', inflight')
  /\ last' = Report("processLead", "settle", "u1", call.cid, "error",
                    ProcessFailedMessage, "threw")
  /\ UNCHANGED <<now, campaignVars, nextLead, workflowVars, pureVars, rateVars>>

\* ---------------------------------------------------------------- workflow service
WorkflowIds == 1..MaxOwned

GoodStep(order) == WorkflowStep("s", "connect", "object", order)

\* CreateWorkflowRequest values the callers send: no step, one good step, two
\* steps with the same order, a step of unknown type, a step without config
WorkflowInputs ==
  { [name |-> "w1", steps |-> list,
     settings |-> [retryAttempts |-> "3", concurrency |-> "5"]] :
      list \in { <<>>, <<GoodStep(1)>>, <<GoodStep(1), GoodStep(1)>>,
                 <<WorkflowStep("s", "bogus", "object", 1)>>,
                 <<WorkflowStep("s", "connect", "null", 1)>> } }

\* Partial<CreateWorkflowRequest & { status }> values the callers send; steps
\* is <<>> when absent and <<list>> when given
WorkflowUpdates ==
  { [name |-> "w2", steps |-> <<>>, settings |-> <<>>, status |-> Absent],
    [name |-> "w3", steps |-> << <<>> >>, settings |-> [concurrency |-> "2"],
     status |-> Absent],
    [name |-> Absent, steps |-> <<>>, settings |-> <<>>, status |-> PAUSED],
    [name |-> Absent, steps |-> <<>>, settings |-> <<>>, status |-> DRAFT] }

NewWorkflow(id, c, data, t) ==
  [id |-> id, campaignId |-> c, name |-> data.name, steps |-> data.steps,
   status |-> DRAFT, settings |-> data.settings, createdAt |-> t, updatedAt |-> t]

\* WorkflowService.createWorkflow: the campaign id is taken as given
CreateWorkflow(c, data) ==
  /\ nextWorkflow < MaxOwned
  /\ LET id == nextWorkflow + 1 IN
       /\ nextWorkflow' = id
       /\ workflows' = (id :> NewWorkflow(id, c, data, now)) @@ workflows
       /\ last' = Report("createWorkflow", "call", "u1", id, "ok", <<>>, "none")
  /\ UNCHANGED <<now, campaignVars, inflight, leadVars, detachedWorkflows, pureVars, rateVars>>

\* !workflow
WorkflowNotFound(w) == w \notin DOMAIN workflows

WorkflowNotFoundMessage == <<"Workflow not found">>

\* `Cannot ${op} workflow with status: ${status}`
WorkflowPreconditionMessage(op, status) == <<"Cannot", op, "workflow with status:", status>>

\* the workflows that a suspended call holds a reference to
HeldWorkflows(calls) ==
  { call.cid : call \in { k \in BagToSet(calls) : k.op = "activateWorkflow" } }

\* the object with this id: the Map's, or the one a suspended call still holds
WorkflowObject(w) == IF w \in DOMAIN workflows THEN workflows[w] ELSE detachedWorkflows[w]

\* deleted objects that no suspended call holds any more are collected
ReleaseWorkflows(detached, keys, calls) ==
  [w \in (DOMAIN detached) \cap (HeldWorkflows(calls) \ keys) |-> detached[w]]

\* ---------------------------------------------------------------- updateWorkflow
ApplyWorkflowUpdate(workflow, updateData, t) ==
  [workflow EXCEPT
     !.name = IF updateData.name # Absent THEN updateData.name ELSE @,
     !.steps = IF updateData.steps # <<>> THEN updateData.steps[1] ELSE @,
     !.settings = MergeSettings(@, updateData.settings),
     !.status = IF updateData.status # Absent THEN updateData.status ELSE @,
     !.updatedAt = t]

UpdateWorkflow(w, updateData) ==
  /\ IF WorkflowNotFound(w)
       THEN /\ last' = Report("updateWorkflow", "call", "u1", w, "null", <<>>, "none")
            /\ UNCHANGED workflows
       ELSE /\ workflows' = [workflows EXCEPT ![w] = ApplyWorkflowUpdate(@, updateData, now)]
            /\ last' = Report("updateWorkflow", "call", "u1", w, "workflow", <<>>, "none")
  /\ UNCHANGED <<now, campaignVars, inflight, leadVars, detachedWorkflows, nextWorkflow,
                 pureVars, rateVars>>

\* ---------------------------------------------------------------- deleteWorkflow
DeleteWorkflow(w) ==
  /\ IF WorkflowNotFound(w)
       THEN /\ last' = Report("deleteWorkflow", "call", "u1", w, "false", <<>>, "none")
            /\ UNCHANGED <<workflows, detachedWorkflows>>
       ELSE /\ workflows' = [v \in DOMAIN workflows \ {w} |-> workflows[v]]
            /\ detachedWorkflows' =
                 ReleaseWorkflows((w :> workflows[w]) @@ detachedWorkflows,
                                  DOMAIN workflows', inflight)
            /\ last' = Report("deleteWorkflow", "call", "u1", w, "true", <<>>, "none")
  /\ UNCHANGED <<now, campaignVars, inflight, leadVars, nextWorkflow, pureVars, rateVars>>

\* ---------------------------------------------------------------- activateWorkflow
\* workflow.status !== WorkflowStatus.DRAFT
ActivateRefused(workflow) == workflow.status # DRAFT

\* status = ACTIVE; updatedAt = new Date()
MarkActivated(workflow, t) == [workflow EXCEPT !.status = ACTIVE, !.updatedAt = t]

\* mutant: the catch block rethrows without reverting
RevertActivateMissing(workflow, t) == workflow

\* status = DRAFT; updatedAt = new Date()
RevertActivate(workflow, t) == [workflow EXCEPT !.status = DRAFT, !.updatedAt = t]

\* mapToGrowChiefStep reads step.config.delay, which throws when config is null;
\* it runs inside growChiefService.createWorkflow before the request is made
MapThrows(list) == \E i \in DOMAIN list : list[i].config = "null"

\* `Failed to activate workflow: ${error.message}`
ActivateFailedMessage == <<"Failed to activate workflow:">> \o GatewayMessage("createWorkflow")

\* up to the await of growChiefService.createWorkflow
ActivateWorkflow(w) ==
  /\ IF WorkflowNotFound(w)
       THEN /\ last' = Report("activateWorkflow", "call", "u1", w, "error",
                              WorkflowNotFoundMessage, "none")
            /\ UNCHANGED <<workflows, inflight>>
       ELSE IF ActivateRefused(workflows[w])
         THEN /\ last' = Report("activateWorkflow", "call", "u1", w, "error",
                                WorkflowPreconditionMessage("activate", workflows[w].status),
                                "none")
              /\ UNCHANGED <<workflows, inflight>>
         ELSE /\ BagCardinality(inflight) < MaxCalls
              /\ workflows' = [workflows EXCEPT ![w] = MarkActivated(@, now)]
              /\ inflight' = Suspend(Call("activateWorkflow", "u1", w,
                                          <<MapThrows(workflows[w].steps)>>))
              /\ last' = Report("activateWorkflow", "call", "u1", w, "pending", <<>>,
                                "createWorkflow")
  /\ UNCHANGED <<now, campaignVars, leadVars, detachedWorkflows, nextWorkflow, pureVars, rateVars>>

\* growChiefService.createWorkflow returned
ActivateWorkflowOk(call) ==
  /\ BagIn(call, inflight)
  /\ call.op = "activateWorkflow"
  /\ call.pre = <<FALSE>>
  /\ inflight' = Settle(call)
  /\ detachedWorkflows' = ReleaseWorkflows(detachedWorkflows, DOMAIN workflows, inflight')
  /\ last' = Report("activateWorkflow", "settle", "u1", call.cid, "ok", <<>>, "returned")
  /\ UNCHANGED <<now, campaignVars, leadVars, workflows, nextWorkflow, pureVars, rateVars>>

\* growChiefService.createWorkflow threw: the catch block reverts, stores and rethrows
ActivateWorkflowFailed(call) ==
  /\ BagIn(call, inflight)
  /\ call.op = "activateWorkflow"
  /\ inflight' = Settle(call)
  /\ workflows' = (call.cid :> RevertActivate(WorkflowObject(call.cid), now)) @@ workflows
  /\ detachedWorkflows' = ReleaseWorkflows(detachedWorkflows, DOMAIN workflows', inflight')
  /\ last' = Report("activateWorkflow", "settle", "u1", call.cid, "error",
                    ActivateFailedMessage, "threw")
  /\ UNCHANGED <<now, campaignVars, leadVars, nextWorkflow, pureVars, rateVars>>

\* ---------------------------------------------------------------- pauseWorkflow
\* status = PAUSED; updatedAt = new Date()
MarkWorkflowPaused(workflow, t) == [workflow EXCEPT !.status = PAUSED, !.updatedAt = t]

\* the whole method: it has no await
PauseWorkflow(w) ==
  /\ IF WorkflowNotFound(w)
       THEN /\ last' = Report("pauseWorkflow", "call", "u1", w, "error",
                              WorkflowNotFoundMessage, "none")
            /\ UNCHANGED workflows
       ELSE IF workflows[w].status # ACTIVE
         THEN /\ last' = Report("pauseWorkflow", "call", "u1", w, "error",
                                WorkflowPreconditionMessage("pause", workflows[w].status),
                                "none")
              /\ UNCHANGED workflows
         ELSE /\ workflows' = [workflows EXCEPT ![w] = MarkWorkflowPaused(@, now)]
              /\ last' = Report("pauseWorkflow", "call", "u1", w, "ok", <<>>, "none")
  /\ UNCHANGED <<now, campaignVars, inflight, leadVars, detachedWorkflows, nextWorkflow,
                 pureVars, rateVars>>

\* ---------------------------------------------------------------- resumeWorkflow
\* status = ACTIVE; updatedAt = new Date()
MarkWorkflowResumed(workflow, t) == [workflow EXCEPT !.status = ACTIVE, !.updatedAt = t]

\* the whole method: it has no await
ResumeWorkflow(w) ==
  /\ IF WorkflowNotFound(w)
       THEN /\ last' = Report("resumeWorkflow", "call", "u1", w, "error",
                              WorkflowNotFoundMessage, "none")
            /\ UNCHANGED workflows
       ELSE IF workflows[w].status # PAUSED
         THEN /\ last' = Report("resumeWorkflow", "call", "u1", w, "error",
                                WorkflowPreconditionMessage("resume", workflows[w].status),
                                "none")
              /\ UNCHANGED workflows
         ELSE /\ workflows' = [workflows EXCEPT ![w] = MarkWorkflowResumed(@, now)]
              /\ last' = Report("resumeWorkflow", "call", "u1", w, "ok", <<>>, "none")
  /\ UNCHANGED <<now, campaignVars, inflight, leadVars, detachedWorkflows, nextWorkflow,
                 pureVars, rateVars>>

Pending == BagToSet(inflight)

\* the model explores runs of at most MaxSteps steps
Step == steps < MaxSteps /\ steps' = steps + 1 /\ UNCHANGED history

\* the runs of the lead and workflow services are explored to MaxServiceSteps
ServiceStep == steps < MaxServiceSteps /\ steps' = steps + 1 /\ UNCHANGED history

\* the campaign service alone
Next ==
  \/ Step /\ Tick
  \/ Step /\ \E u \in Users, data \in CreateInputs : CreateCampaign(u, data)
  \/ Step /\ \E u \in Users, c \in RequestIds : GetCampaignById(u, c)
  \/ Step /\ \E u \in Users, c \in RequestIds, updateData \in UpdateInputs : UpdateCampaign(u, c, updateData)
  \/ Step /\ \E u \in Users, c \in RequestIds : DeleteCampaign(u, c)
  \/ Step /\ \E call \in Pending, ok \in BOOLEAN : DeleteCampaignDone(call, ok)
  \/ Step /\ \E u \in Users, c \in RequestIds : StartCampaign(u, c)
  \/ Step /\ \E call \in Pending : StartCampaignOk(call)
  \/ Step /\ \E call \in Pending : StartCampaignFailed(call)
  \/ Step /\ \E u \in Users, c \in RequestIds : PauseCampaign(u, c)
  \/ Step /\ \E call \in Pending : PauseCampaignOk(call)
  \/ Step /\ \E call \in Pending : PauseCampaignFailed(call)
  \/ Step /\ \E u \in Users, c \in RequestIds : ResumeCampaign(u, c)
  \/ Step /\ \E call \in Pending : ResumeCampaignOk(call)
  \/ Step /\ \E call \in Pending : ResumeCampaignFailed(call)

\* the campaign service with the lead and workflow services next to it
NextOwned ==
  \/ Next
  \/ Step /\ nextLead < MaxOwned /\ \E c \in CampaignIds, data \in LeadInputs : CreateLead(c, data)
  \/ Step /\ \E c \in CampaignIds, data \in WorkflowInputs : CreateWorkflow(c, data)

\* the workflow service alone
NextWorkflow ==
  \/ ServiceStep /\ Tick
  \/ ServiceStep /\ \E c \in {GivenCampaign}, data \in WorkflowInputs : CreateWorkflow(c, data)
  \/ ServiceStep /\ \E w \in WorkflowIds, updateData \in WorkflowUpdates : UpdateWorkflow(w, updateData)
  \/ ServiceStep /\ \E w \in WorkflowIds : DeleteWorkflow(w)
  \/ ServiceStep /\ \E w \in WorkflowIds : ActivateWorkflow(w)
  \/ ServiceStep /\ \E call \in Pending : ActivateWorkflowOk(call)
  \/ ServiceStep /\ \E call \in Pending : ActivateWorkflowFailed(call)
  \/ ServiceStep /\ \E w \in WorkflowIds : PauseWorkflow(w)
  \/ ServiceStep /\ \E w \in WorkflowIds : ResumeWorkflow(w)

\* the lead service alone
NextLead ==
  \/ ServiceStep /\ Tick
  \/ ServiceStep /\ \E c \in {GivenCampaign}, data \in LeadInputs : CreateLead(c, data)
  \/ ServiceStep /\ \E c \in {GivenCampaign}, leadsData \in Batches(MaxBatch) : CreateLeads(c, leadsData)
  \/ ServiceStep /\ \E call \in Pending : CreateLeadsNext(call)
  \/ ServiceStep /\ \E l \in LeadIds, updateData \in LeadUpdates : UpdateLead(l, updateData)
  \/ ServiceStep /\ \E l \in LeadIds : DeleteLead(l)
  \/ ServiceStep /\ \E l \in LeadIds : ProcessLead(l)
  \/ ServiceStep /\ \E call \in Pending : ProcessLeadOk(call)
  \/ ServiceStep /\ \E call \in Pending : ProcessLeadFailed(call)

Spec == Init /\ [][Next]_vars

SpecLead == Init /\ [][NextLead]_vars

SpecOwned == Init /\ [][NextOwned]_vars

SpecWorkflow == Init /\ [][NextWorkflow]_vars

\* the runs of createLead and processLead keep their history
LeadLogStep ==
  /\ steps < MaxServiceSteps
  /\ steps' = steps + 1
  /\ history' = Append(history, [at |-> now, report |-> last'])

\* createLead and processLead calls, and the answers of addLeads
NextProcess ==
  \/ Tick /\ LeadLogStep
  \/ (\E c \in {GivenCampaign}, data \in LeadInputs : CreateLead(c, data)) /\ LeadLogStep
  \/ (\E l \in LeadIds : ProcessLead(l)) /\ LeadLogStep
  \/ (\E call \in Pending : ProcessLeadOk(call)) /\ LeadLogStep
  \/ (\E call \in Pending : ProcessLeadFailed(call)) /\ LeadLogStep

SpecProcess == Init /\ [][NextProcess]_vars

\* ---------------------------------------------------------------- rate limiter
\* Math.ceil((resetTime - now) / 1000) divides milliseconds into seconds
MsPerSecond == 1000

\* the clock of the rate limiter's runs moves in half seconds
HalfSecond == MsPerSecond \div 2

\* req.user before authMiddleware has set it
NoUser == <<>>

\* req.user after the Google IAM branch: the pending Promise that the async
\* validateGoogleIAMToken returned, whose id reads undefined
PromiseUser == <<"">>

Ips == {"a", "b"}

Request(ip, user) == [ip |-> ip, user |-> user]

\* the requests the limiter is given when it is called as a function
RateRequests == {Request("a", NoUser), Request("a", <<"u1">>), Request("b", NoUser)}

\* the settings the environment can give
RateLimits == 1..MaxLimit

RateWindows == {k * HalfSecond : k \in 1..MaxWindow}

getClientIdentifier(req) ==
  IF req.user # NoUser /\ req.user[1] # ""
    THEN <<"user", req.user[1]>>
    ELSE <<"ip", IF req.ip # "" THEN req.ip ELSE "unknown">>

\* mutant: a sweep that deletes nothing
cleanupNothing(counts, t) == counts

\* the sweep of the Map: an entry goes once its window has ended
cleanupExpiredEntries(counts, t) ==
  [clientId \in {k \in DOMAIN counts : ~(t > counts[k].resetTime)} |-> counts[clientId]]

\* Math.floor(a / b), which reports a remaining time too short
TruncDiv(a, b) == a \div b

\* Math.ceil(a / b) for a positive divisor
Ceil(a, b) == (a + b - 1) \div b

\* a limiter whose windows end one instant early, at resetTime itself
ClientDataEarly(clientId, counts, t) ==
  IF clientId \notin DOMAIN counts \/ t >= counts[clientId].resetTime
    THEN [count |-> 0, resetTime |-> t + RATE_WINDOW_MS]
    ELSE counts[clientId]

\* the entry a request is counted in: the client's own, or a new window
\* that opens now when it has none or its window has ended
ClientData(clientId, counts, t) ==
  IF clientId \notin DOMAIN counts \/ t > counts[clientId].resetTime
    THEN [count |-> 0, resetTime |-> t + RATE_WINDOW_MS]
    ELSE counts[clientId]

\* a limiter that lets a request through when the count has reached the limit
LimitExceededLate(clientData) == clientData.count > RATE_LIMIT

LimitExceeded(clientData) == clientData.count >= RATE_LIMIT

\* a limiter in which a rejected request pushes the end of the window back
ExtendedOnReject(counts, clientId, rejected) ==
  IF rejected THEN [counts EXCEPT ![clientId].resetTime = @ + RATE_WINDOW_MS]
  ELSE [counts EXCEPT ![clientId].count = @ + 1]

Counted(counts, clientId, rejected) ==
  IF rejected THEN counts ELSE [counts EXCEPT ![clientId].count = @ + 1]

\* mutant: the headers are written before the request is counted
HeadersBeforeCount(clientData) ==
  [limit |-> RATE_LIMIT, remaining |-> RATE_LIMIT - (clientData.count - 1)]

\* X-RateLimit-Limit and X-RateLimit-Remaining of an allowed request, set
\* after count++
RateLimitHeaders(clientData) ==
  [limit |-> RATE_LIMIT, remaining |-> RATE_LIMIT - clientData.count]

\* the middleware on a request at time t: the client id it used, the status it
\* answered with (200 stands for next()), retryAfter, the limit and the
\* remaining quota it put in the headers, and the Map it leaves
rateLimiter(req, counts, t) ==
  LET clientId == getClientIdentifier(req)
      swept == cleanupExpiredEntries(counts, t)
      clientData == ClientData(clientId, swept, t)
      opened == (clientId :> clientData) @@ swept
      rejected == LimitExceeded(clientData)
      after == Counted(opened, clientId, rejected)
  IN [clientId |-> clientId,
      status |-> IF rejected THEN "429" ELSE "200",
      retryAfter |-> Ceil(clientData.resetTime - t, MsPerSecond),
      limit |-> RateLimitHeaders(after[clientId]).limit,
      remaining |-> RateLimitHeaders(after[clientId]).remaining,
      counts |-> after]

\* who a request says it is
UserName(user) == IF user = NoUser \/ user = PromiseUser THEN "anonymous" ELSE user[1]

\* the limiter called with a request as it stands
RateLimiter(req) ==
  LET out == rateLimiter(req, requestCounts, now)
  IN /\ requestCounts' = out.counts
     /\ last' = Report("rateLimiter", "call", UserName(req.user), out.clientId,
                       IF out.status = "429" THEN "rejected" ELSE "allowed",
                       IF out.status = "429" THEN <<out.retryAfter>>
                                             ELSE <<out.remaining, out.limit>>,
                       "none")
     /\ UNCHANGED <<now, campaignVars, inflight, leadVars, workflowVars, pureVars,
                    RATE_LIMIT, RATE_WINDOW_MS>>

\* Date.now() moves on
Elapse ==
  /\ now' = now + HalfSecond
  /\ last' = Report("elapse", "call", "anonymous", <<"clock", "">>, "ok", <<>>, "none")
  /\ UNCHANGED <<campaignVars, inflight, leadVars, workflowVars, pureVars, rateVars>>

\* ---------------------------------------------------------------- authentication
\* an Authorization header: whether it is there, the length of the token in it,
\* whether the token starts with ak_, and the user an API key of that text names
Token(header, length, ak, id) == [header |-> header, length |-> length, ak |-> ak, id |-> id]

\* the key of the README and of the seed data, ak_demo123456789
DemoKeyLength == 16
DemoKey == Token(TRUE, DemoKeyLength, TRUE, "u1")

Tokens ==
  { Token(FALSE, 0, FALSE, ""), Token(TRUE, 0, FALSE, ""), Token(TRUE, 20, FALSE, ""),
    Token(TRUE, 32, TRUE, "u1"), Token(TRUE, 32, FALSE, ""), Token(TRUE, 101, FALSE, ""),
    DemoKey }

Unauthorized(message) == [status |-> "401", message |-> message, user |-> NoUser]

Authenticated(user) == [status |-> "200", message |-> "", user |-> user]

\* validateApiKey: null, written NoUser, unless the key starts with ak_
validateApiKey(token) == IF token.ak THEN <<token.id>> ELSE NoUser

\* mutant: a request without the header passes
authMiddlewareOpen(token) ==
  IF token.length > 100 THEN Authenticated(PromiseUser)
  ELSE IF token.length > 20 \/ ~token.header
    THEN IF ~token.ak /\ token.header
           THEN Unauthorized("Invalid API key")
           ELSE Authenticated(<<token.id>>)
  ELSE Unauthorized("Invalid or expired token")

\* what authMiddleware answers and the req.user it leaves; jwt.verify throws on
\* every token of at most 20 characters, which is too short to be a signed JWT
authMiddleware(token) ==
  IF ~token.header THEN Unauthorized("No authorization header provided")
  ELSE IF token.length = 0 THEN Unauthorized("No token provided")
  ELSE IF token.length > 100 THEN Authenticated(PromiseUser)
  ELSE IF token.length > 20
    THEN IF validateApiKey(token) = NoUser
           THEN Unauthorized("Invalid API key")
           ELSE Authenticated(validateApiKey(token))
  ELSE Unauthorized("Invalid or expired token")

\* a request through the application, to /health or to a protected route
\* under /api/v1: the rate limiter is the first to see it, before any route
\* and so before authMiddleware has set req.user; the report says what was
\* answered (200 when the route's handler was reached) and what was sent
AppRequest(ip, token, protected) ==
  LET out == rateLimiter(Request(ip, NoUser), requestCounts, now)
      auth == authMiddleware(token)
  IN /\ requestCounts' = out.counts
     /\ last' = Report("request", "call", UserName(auth.user), out.clientId,
                       IF out.status = "429" THEN "429"
                       ELSE IF protected THEN auth.status ELSE "200",
                       <<IF out.status = "429" THEN out.retryAfter ELSE out.remaining,
                         token, protected>>,
                       "none")
     /\ UNCHANGED <<now, campaignVars, inflight, leadVars, workflowVars, pureVars,
                    RATE_LIMIT, RATE_WINDOW_MS>>

\* the rate limiter's runs are explored to MaxRateSteps and keep their history
RateStep ==
  /\ steps < MaxRateSteps
  /\ steps' = steps + 1
  /\ history' = Append(history, [at |-> now, report |-> last'])

\* the application's runs are explored as far, without a history
AppStep == steps < MaxRateSteps /\ steps' = steps + 1 /\ UNCHANGED history

InitRate ==
  /\ Constructed
  /\ givenSteps = <<>>
  /\ RATE_LIMIT \in RateLimits
  /\ RATE_WINDOW_MS \in RateWindows

NextRate ==
  \/ Elapse /\ RateStep
  \/ (\E req \in RateRequests : RateLimiter(req)) /\ RateStep

NextApp ==
  \/ AppStep /\ Elapse
  \/ AppStep /\ \E ip \in Ips, token \in Tokens, protected \in BOOLEAN : AppRequest(ip, token, protected)

SpecRate == InitRate /\ [][NextRate]_vars

SpecApp == InitRate /\ [][NextApp]_vars

\* ---------------------------------------------------------------- pause and resume
\* the campaign of u1 after createCampaign and a startCampaign that has returned
StartedCampaign ==
  MarkStarted(NewCampaign(1, "u1", CHOOSE data \in CreateInputs : TRUE, 0), 0)

\* the services once that campaign is running
InitStarted ==
  /\ now = 0
  /\ campaigns = {1}
  /\ heap = (1 :> StartedCampaign)
  /\ nextCampaign = 1
  /\ inflight = EmptyBag
  /\ executed = {1}
  /\ everActive = {1}
  /\ leads = <<>>
  /\ detachedLeads = <<>>
  /\ nextLead = 0
  /\ workflows = <<>>
  /\ detachedWorkflows = <<>>
  /\ nextWorkflow = 0
  /\ validation = NotRun
  /\ givenSteps = <<>>
  /\ steps = 0
  /\ last = Report("startCampaign", "settle", "u1", 1, "ok", <<>>, "returned")
  /\ requestCounts = <<>>
  /\ history = <<>>
  /\ Configured

\* the runs of pause and resume are explored to MaxPauseSteps and keep their history
PauseStep ==
  /\ steps < MaxPauseSteps
  /\ steps' = steps + 1
  /\ history' = Append(history, [at |-> now, report |-> last'])

\* the owner's pauseCampaign and resumeCampaign calls on the running campaign
NextPause ==
  \/ (\E c \in RequestIds : PauseCampaign("u1", c)) /\ PauseStep
  \/ (\E call \in Pending : PauseCampaignOk(call)) /\ PauseStep
  \/ (\E call \in Pending : PauseCampaignFailed(call)) /\ PauseStep
  \/ (\E c \in RequestIds : ResumeCampaign("u1", c)) /\ PauseStep
  \/ (\E call \in Pending : ResumeCampaignOk(call)) /\ PauseStep
  \/ (\E call \in Pending : ResumeCampaignFailed(call)) /\ PauseStep

SpecPause == InitStarted /\ [][NextPause]_vars

\* ---------------------------------------------------------------- the backend
\* the steps of the history in which a pauseCampaign or resumeCampaign call
\* sent command op for campaign c to the gateway, in which the backend took
\* such a command, and in which the gateway's call returned
Commanded(op, c) ==
  {i \in DOMAIN history : LET r == history[i].report
                          IN r.op = op /\ r.cid = c /\ r.step = "call" /\ r.result = "pending"}

Accepted(op, c) ==
  {i \in DOMAIN history : LET r == history[i].report
                          IN r.op = op /\ r.cid = c /\ r.step = "accept"}

Answered(op, c) ==
  {i \in DOMAIN history : LET r == history[i].report
                          IN r.op = op /\ r.cid = c /\ r.step = "settle"}

\* the backend takes a command that has been sent to it: POST
\* /campaigns/:id/pause or /resume of makeRequest, some time before the answer
BackendAccepts(op, c) ==
  /\ Cardinality(Accepted(op, c)) < Cardinality(Commanded(op, c))
  /\ last' = Report(op, "accept", "u1", c, "ok", <<>>, "backend")
  /\ UNCHANGED <<now, campaignVars, inflight, leadVars, workflowVars, pureVars, rateVars>>

\* fetch resolves for a command only after the backend has taken it
AnswerDue(call) ==
  Cardinality(Answered(call.op, call.cid)) < Cardinality(Accepted(call.op, call.cid))

BackendStep ==
  /\ steps < MaxBackendSteps
  /\ steps' = steps + 1
  /\ history' = Append(history, [at |-> now, report |-> last'])

\* the owner's pauseCampaign and resumeCampaign calls on the running campaign
\* with a backend that takes every command and answers it with success
NextBackend ==
  \/ (\E c \in RequestIds : PauseCampaign("u1", c)) /\ BackendStep
  \/ (\E c \in RequestIds : ResumeCampaign("u1", c)) /\ BackendStep
  \/ (\E op \in {"pauseCampaign", "resumeCampaign"}, c \in RequestIds : BackendAccepts(op, c))
       /\ BackendStep
  \/ (\E call \in Pending : AnswerDue(call) /\ PauseCampaignOk(call)) /\ BackendStep
  \/ (\E call \in Pending : AnswerDue(call) /\ ResumeCampaignOk(call)) /\ BackendStep

SpecBackend == InitStarted /\ [][NextBackend]_vars

\* ---------------------------------------------------------------- catch blocks
\* the catch block of a route of campaignController on the value it caught:
\* the status it answers with, none when it does not get as far as res.status
RouteCatch(error, notFound) ==
  LET message == getErrorMessage(error)
  IN IF message.threw THEN "none"
     ELSE IF notFound THEN "404" ELSE "500"

\* a catch block calls getErrorMessage on what it caught
GetErrorMessage(error) ==
  /\ last' = Report("getErrorMessage", "call", "anonymous", 0, getErrorMessage(error),
                    <<error, RouteCatch(error, FALSE)>>, "none")
  /\ UNCHANGED <<now, campaignVars, inflight, leadVars, workflowVars, pureVars, rateVars>>

\* pause and resume with their failures, and the catch blocks on their own
NextErrors ==
  \/ (\E c \in RequestIds : PauseCampaign("u1", c)) /\ PauseStep
  \/ (\E call \in Pending : PauseCampaignOk(call)) /\ PauseStep
  \/ (\E call \in Pending : PauseCampaignFailed(call)) /\ PauseStep
  \/ (\E c \in RequestIds : ResumeCampaign("u1", c)) /\ PauseStep
  \/ (\E call \in Pending : ResumeCampaignOk(call)) /\ PauseStep
  \/ (\E call \in Pending : ResumeCampaignFailed(call)) /\ PauseStep
  \/ (\E error \in ErrorValues : GetErrorMessage(error)) /\ PauseStep

SpecErrors == InitStarted /\ [][NextErrors]_vars

\* ---------------------------------------------------------------- gateway callers
\* the operations of the three services that call the gateway, with the
\* creations they need, all by one user: a call on somebody else's campaign
\* does not get as far as the gateway
NextGateway ==
  \/ Step /\ \E u \in {"u1"}, data \in CreateInputs : CreateCampaign(u, data)
  \/ Step /\ \E u \in {"u1"}, c \in RequestIds : DeleteCampaign(u, c)
  \/ Step /\ \E call \in Pending, ok \in BOOLEAN : DeleteCampaignDone(call, ok)
  \/ Step /\ \E u \in {"u1"}, c \in RequestIds : StartCampaign(u, c)
  \/ Step /\ \E call \in Pending : StartCampaignOk(call)
  \/ Step /\ \E call \in Pending : StartCampaignFailed(call)
  \/ Step /\ \E u \in {"u1"}, c \in RequestIds : PauseCampaign(u, c)
  \/ Step /\ \E call \in Pending : PauseCampaignOk(call)
  \/ Step /\ \E call \in Pending : PauseCampaignFailed(call)
  \/ Step /\ \E u \in {"u1"}, c \in RequestIds : ResumeCampaign(u, c)
  \/ Step /\ \E call \in Pending : ResumeCampaignOk(call)
  \/ Step /\ \E call \in Pending : ResumeCampaignFailed(call)
  \/ Step /\ \E c \in {GivenCampaign}, data \in WorkflowInputs : CreateWorkflow(c, data)
  \/ Step /\ \E w \in WorkflowIds : ActivateWorkflow(w)
  \/ Step /\ \E call \in Pending : ActivateWorkflowOk(call)
  \/ Step /\ \E call \in Pending : ActivateWorkflowFailed(call)
  \/ Step /\ \E c \in {GivenCampaign}, data \in LeadInputs : CreateLead(c, data)
  \/ Step /\ \E l \in LeadIds : ProcessLead(l)
  \/ Step /\ \E call \in Pending : ProcessLeadOk(call)
  \/ Step /\ \E call \in Pending : ProcessLeadFailed(call)

SpecGateway == Init /\ [][NextGateway]_vars

\* ---------------------------------------------------------------- getCampaigns
\* GetCampaignsOptions values the callers send: a page, a page size and
\* perhaps a status
ListOptions ==
  { [page |-> page, limit |-> limit, status |-> status] :
      page \in 1..MaxPage, limit \in 1..MaxPage, status \in {Absent, DRAFT, ACTIVE} }

\* Array.from(this.campaigns.values()).filter(...): the ids of the campaigns
\* of the user, with the status asked for if one is given
Filtered(u, status) ==
  {c \in campaigns : heap[c].userId = u /\ (status = Absent \/ heap[c].status = status)}

\* sort by createdAt, newest first; campaigns created at the same time stay in
\* the order of the Map, which is the order of their creation
RECURSIVE SortNewestFirst(_)
SortNewestFirst(ids) ==
  IF ids = {} THEN <<>>
  ELSE LET first == CHOOSE c \in ids :
                      \A d \in ids :
                        \/ heap[c].createdAt > heap[d].createdAt
                        \/ heap[c].createdAt = heap[d].createdAt /\ c <= d
       IN <<first>> \o SortNewestFirst(ids \ {first})

\* mutant: the page is cut one campaign too long
SliceLong(list, startIndex, endIndex) ==
  SubSeq(list, startIndex + 1, IF endIndex + 1 < Len(list) THEN endIndex + 1 ELSE Len(list))

\* Array.prototype.slice for indexes that are not negative
Slice(list, startIndex, endIndex) ==
  SubSeq(list, startIndex + 1, IF endIndex < Len(list) THEN endIndex ELSE Len(list))

getCampaigns(u, options) ==
  LET userCampaigns == SortNewestFirst(Filtered(u, options.status))
      total == Len(userCampaigns)
      startIndex == (options.page - 1) * options.limit
      endIndex == startIndex + options.limit
      listed == Slice(userCampaigns, startIndex, endIndex)
  IN [campaigns |-> [i \in DOMAIN listed |-> heap[listed[i]]],
      page |-> options.page,
      limit |-> options.limit,
      total |-> total,
      totalPages |-> Ceil(total, options.limit)]

\* the call, which has no await; what it returned is the result of the report
GetCampaigns(u, options) ==
  /\ last' = Report("getCampaigns", "call", u, 0, getCampaigns(u, options), <<options>>, "none")
  /\ UNCHANGED <<now, campaigns, heap, nextCampaign, inflight, executed, everActive,
                 leadVars, workflowVars, pureVars, rateVars>>

\* a campaign as createCampaign stored it at time t, started since or not
ListedCampaign(id, u, status, t) ==
  IF status = ACTIVE
    THEN MarkStarted(NewCampaign(id, u, CHOOSE data \in CreateInputs : TRUE, t), t)
    ELSE NewCampaign(id, u, CHOOSE data \in CreateInputs : TRUE, t)

\* the stores of up to MaxListed campaigns of either user, draft or running,
\* created in the order of their ids
Stores ==
  UNION { { h \in [1..n -> { ListedCampaign(0, u, status, t) :
                               u \in Users, status \in {DRAFT, ACTIVE}, t \in 0..MaxTime }] :
              \A c \in 1..n : c = 1 \/ h[c - 1].createdAt <= h[c].createdAt } :
          n \in 0..MaxListed }

InitListed ==
  /\ now = MaxTime
  /\ \E h \in Stores :
       /\ heap = [c \in DOMAIN h |-> [h[c] EXCEPT !.id = c]]
       /\ campaigns = DOMAIN h
       /\ nextCampaign = Len(h)
       /\ executed = {c \in DOMAIN h : h[c].status = ACTIVE}
       /\ everActive = {c \in DOMAIN h : h[c].status = ACTIVE}
  /\ inflight = EmptyBag
  /\ leads = <<>>
  /\ detachedLeads = <<>>
  /\ nextLead = 0
  /\ workflows = <<>>
  /\ detachedWorkflows = <<>>
  /\ nextWorkflow = 0
  /\ validation = NotRun
  /\ givenSteps = <<>>
  /\ steps = 0
  /\ last = Report("init", "call", "u1", 0, "ok", <<>>, "none")
  /\ requestCounts = <<>>
  /\ history = <<>>
  /\ Configured

\* one getCampaigns call on each store
NextListed ==
  /\ steps = 0
  /\ steps' = steps + 1
  /\ UNCHANGED history
  /\ \E u \in Users, options \in ListOptions : GetCampaigns(u, options)

SpecListed == InitListed /\ [][NextListed]_vars

\* ================================================================ claims
\* the content of the Map: what a reader of the store sees
Stored == [c \in campaigns |-> heap[c]]

StartInFlight(c) == \E call \in Pending : call.op = "startCampaign" /\ call.cid = c

\* the call that the step settles
Settled(call) == CopiesIn(call, inflight') < CopiesIn(call, inflight)

\* the campaign does not exist or belongs to somebody else
Foreign(u, c) == c \notin campaigns \/ heap[c].userId # u

LifecycleOps == {"startCampaign", "pauseCampaign", "resumeCampaign"}

\* C1: whenever no startCampaign call for a campaign is in flight, a stored
\* campaign with status active is one for which executeCampaign has succeeded.
C1_ActiveImpliesExecuted ==
  \A c \in campaigns :
    (~StartInFlight(c) /\ heap[c].status = ACTIVE) => c \in executed

\* C2: startCampaign goes ahead only from draft; on an existing campaign of the
\* caller in any other status it throws the precondition error, issues no
\* gateway request and leaves the store as it was.
C2_StartOnlyFromDraft ==
  [][ (last'.op = "startCampaign" /\ last'.step = "call"
         /\ ~Foreign(last'.user, last'.cid))
      => IF heap[last'.cid].status = DRAFT
           THEN last'.result = "pending"
           ELSE /\ last'.result = "error"
                /\ last'.msg = <<"Cannot", "start", "campaign with status:",
                                 heap[last'.cid].status>>
                /\ last'.issued = "none"
                /\ UNCHANGED <<campaigns, heap, inflight>> ]_vars

C2_Witness ==
  /\ last.op = "startCampaign" /\ last.step = "call" /\ last.result = "error"
  /\ last.cid \in campaigns
  /\ heap[last.cid].userId = last.user
  /\ heap[last.cid].status = PAUSED

\* C3 as stated: after a start whose executeCampaign failed, the stored
\* campaign equals, field by field, the campaign stored before the call, and
\* the caller gets an error.
C3_RollbackRoundTrip ==
  [][ (last'.op = "startCampaign" /\ last'.step = "settle" /\ last'.issued = "threw")
      => /\ last'.result = "error"
         /\ last'.cid \in campaigns'
         /\ \A call \in Pending :
              (Settled(call) /\ call.op = "startCampaign")
                => heap'[last'.cid] = call.pre[1] ]_vars

\* C3 amended: after a start whose executeCampaign failed, the campaign is
\* stored with status draft and startedAt unset, its values before the call,
\* and the caller gets the wrapped error; startCampaign changes no field other
\* than status, startedAt and updatedAt, and updatedAt is left at the time of
\* the rollback.
C3_RollbackRestoresStatus ==
  [][ /\ (last'.op = "startCampaign" /\ last'.step = "settle" /\ last'.issued = "threw")
         => /\ last'.result = "error"
            /\ last'.msg[1] = "Failed to start campaign:"
            /\ last'.cid \in campaigns'
            /\ heap'[last'.cid] = [heap[last'.cid] EXCEPT !.status = DRAFT,
                                     !.startedAt = Unset, !.updatedAt = now]
            /\ \A call \in Pending :
                 (Settled(call) /\ call.op = "startCampaign")
                   => /\ heap'[last'.cid].status = call.pre[1].status
                      /\ heap'[last'.cid].startedAt = call.pre[1].startedAt
      /\ (last'.op = "startCampaign" /\ last'.step = "call" /\ last'.result = "pending")
         => heap'[last'.cid] = [heap[last'.cid] EXCEPT !.status = ACTIVE,
                                  !.startedAt = <<now>>, !.updatedAt = now]
      /\ (last'.op = "startCampaign" /\ last'.step = "settle" /\ last'.issued = "returned")
         => Stored' = Stored ]_vars

C3_Witness ==
  /\ last.op = "startCampaign" /\ last.step = "settle" /\ last.issued = "threw"
  /\ last.cid \in campaigns
  /\ heap[last.cid].status = DRAFT
  /\ heap[last.cid].updatedAt > heap[last.cid].createdAt

\* C4: pauseCampaign and resumeCampaign are delegate-first: the step that
\* issues the gateway request changes nothing in the store, a failed request
\* leaves the store unchanged and reaches the caller as an error, a
\* successful one stores paused (resp. active), and nothing else makes a
\* stored status paused.
C4_DelegateFirst ==
  [][ /\ \A op \in {"pauseCampaign", "resumeCampaign"} :
           /\ (last'.op = op /\ last'.step = "call" /\ last'.result = "pending")
                => (last'.issued = op /\ Stored' = Stored)
           /\ (last'.op = op /\ last'.step = "settle" /\ last'.issued = "threw")
                => (last'.result = "error" /\ Stored' = Stored)
           /\ (last'.op = op /\ last'.step = "settle" /\ last'.issued = "returned")
                => /\ last'.result = "ok"
                   /\ last'.cid \in campaigns'
                   /\ heap'[last'.cid].status = IF op = "pauseCampaign" THEN PAUSED ELSE ACTIVE
      /\ \A c \in campaigns' :
           (heap'[c].status = PAUSED /\ (c \notin campaigns \/ heap[c].status # PAUSED))
             => (last'.op = "pauseCampaign" /\ last'.step = "settle"
                   /\ last'.issued = "returned" /\ last'.cid = c) ]_vars

C4_Witness ==
  /\ last.op = "pauseCampaign" /\ last.step = "settle" /\ last.issued = "threw"
  /\ last.cid \in campaigns
  /\ heap[last.cid].status = ACTIVE

\* C5: pauseCampaign on a campaign that is not active and resumeCampaign on
\* one that is not paused throw an error naming the operation and the status,
\* issue no gateway request and leave the store unchanged.
C5_PreconditionNeverNoOp ==
  [][ \A op \in {"pauseCampaign", "resumeCampaign"} :
        (last'.op = op /\ last'.step = "call" /\ ~Foreign(last'.user, last'.cid)
           /\ heap[last'.cid].status # (IF op = "pauseCampaign" THEN ACTIVE ELSE PAUSED))
        => /\ last'.result = "error"
           /\ last'.msg = <<"Cannot", IF op = "pauseCampaign" THEN "pause" ELSE "resume",
                            "campaign with status:", heap[last'.cid].status>>
           /\ last'.issued = "none"
           /\ UNCHANGED <<campaigns, heap, inflight>> ]_vars

C5_Witness ==
  /\ last.op = "resumeCampaign" /\ last.step = "call" /\ last.result = "error"
  /\ last.cid \in campaigns
  /\ heap[last.cid].userId = last.user
  /\ heap[last.cid].status = ACTIVE

\* C6: deleteCampaign by the owner on an active campaign asks the gateway to
\* cancel and, whether that returns or throws, removes the campaign from the
\* store and returns true.
C6_DeleteActiveAlwaysRemoves ==
  [][ /\ (last'.op = "deleteCampaign" /\ last'.step = "call"
            /\ ~Foreign(last'.user, last'.cid) /\ heap[last'.cid].status = ACTIVE)
         => (last'.result = "pending" /\ last'.issued = "cancelCampaign")
      /\ (last'.op = "deleteCampaign" /\ last'.step = "settle")
         => /\ last'.result = "true"
            /\ last'.cid \notin campaigns' ]_vars

C6_Witness ==
  /\ last.op = "deleteCampaign" /\ last.step = "settle" /\ last.issued = "threw"
  /\ last.result = "true"
  /\ last.cid \notin campaigns

\* C7: every change of a stored campaign's status is draft -> active,
\* active -> paused, paused -> active or the rollback active -> draft.
CampaignTransitions ==
  {<<DRAFT, ACTIVE>>, <<ACTIVE, PAUSED>>, <<PAUSED, ACTIVE>>, <<ACTIVE, DRAFT>>}

C7_StateMachine ==
  [][ \A c \in campaigns \cap campaigns' :
        heap'[c].status # heap[c].status
          => <<heap[c].status, heap'[c].status>> \in CampaignTransitions ]_vars

\* C8 as stated: a stored campaign has startedAt set if and only if its status
\* has at some point been active.
C8_StartedAtIffEverActive ==
  \A c \in campaigns : (heap[c].startedAt # Unset) <=> (c \in everActive)

\* C8 amended: a stored campaign has startedAt set if and only if a
\* startCampaign call for it is in flight or executeCampaign has succeeded for
\* it; a start that was rolled back leaves startedAt unset although the status
\* has been active.
C8_StartedAtIffStarted ==
  \A c \in campaigns :
    (heap[c].startedAt # Unset) <=> (StartInFlight(c) \/ c \in executed)

C8_Witness ==
  \E c \in campaigns :
    /\ heap[c].startedAt = Unset
    /\ c \in everActive
    /\ ~StartInFlight(c)

\* C9: after deleteCampaign has returned true for a campaign, no lead and no
\* workflow of that campaign is left in the lead or workflow store.
C9_CascadeDelete ==
  (last.op = "deleteCampaign" /\ last.result = "true")
    => /\ \A l \in DOMAIN leads : leads[l].campaignId # last.cid
       /\ \A w \in DOMAIN workflows : workflows[w].campaignId # last.cid

\* C10: every operation taking (userId, campaignId) treats a campaign that
\* is absent or owned by another user as not found: null from
\* getCampaignById and updateCampaign, false from deleteCampaign, 'Campaign
\* not found' from start, pause and resume; the store is unchanged and no
\* gateway request is issued.
C10_NotFoundForOthers ==
  [][ (last'.step = "call" /\ Foreign(last'.user, last'.cid)
         /\ last'.op \in LifecycleOps \cup {"getCampaignById", "updateCampaign",
                                             "deleteCampaign"})
      => /\ last'.op \in {"getCampaignById", "updateCampaign"} => last'.result = "null"
         /\ last'.op = "deleteCampaign" => last'.result = "false"
         /\ last'.op \in LifecycleOps
              => (last'.result = "error" /\ last'.msg = <<"Campaign not found">>)
         /\ last'.issued = "none"
         /\ UNCHANGED <<campaigns, heap, inflight>> ]_vars

C10_Witness ==
  /\ last.op = "pauseCampaign" /\ last.step = "call"
  /\ last.msg = <<"Campaign not found">>
  /\ last.cid \in campaigns
  /\ heap[last.cid].userId # last.user
  /\ heap[last.cid].status = ACTIVE

\* C11: no step changes the userId or the id of a campaign object, whether the
\* Map holds it or only a suspended call does: from createCampaign on, through
\* updates, starts, rollbacks, pauses and resumes, it belongs to its creator.
C11_OwnerNeverChanges ==
  [][ /\ \A c \in DOMAIN heap \cap DOMAIN heap' :
           heap'[c].userId = heap[c].userId /\ heap'[c].id = heap[c].id
      /\ \A c \in DOMAIN heap' \ DOMAIN heap :
           /\ last'.op = "createCampaign"
           /\ heap'[c].userId = last'.user /\ heap'[c].id = c ]_vars

\* an updated campaign whose start was rolled back, still owned by u2
C11_Witness ==
  \E c \in campaigns :
    /\ heap[c].userId = "u2"
    /\ heap[c].name = "n2" /\ heap[c].platform = "twitter"
    /\ c \in everActive /\ heap[c].status = DRAFT

\* C12: activateWorkflow validates the steps before it writes or calls the
\* gateway: on a draft workflow with no step, with two steps of the same order
\* or with a step of unknown type it returns an error, issues no gateway call
\* and leaves the workflow draft in the store.
ClaimedInvalid(list) ==
  \/ Len(list) = 0
  \/ \E i, j \in DOMAIN list : i # j /\ list[i].order = list[j].order
  \/ \E i \in DOMAIN list :
       list[i].type \notin {"connect", "message", "follow_up", "view_profile",
                            "like_post", "comment"}

C12_ActivateValidates ==
  [][ (last'.op = "activateWorkflow" /\ last'.step = "call"
         /\ last'.cid \in DOMAIN workflows
         /\ workflows[last'.cid].status = DRAFT
         /\ ClaimedInvalid(workflows[last'.cid].steps))
      => /\ last'.result = "error"
         /\ last'.issued = "none"
         /\ workflows' = workflows
         /\ inflight' = inflight ]_vars

\* C13: activateWorkflow on a draft workflow stores active and calls
\* createWorkflow on the gateway; when that fails the workflow is stored with
\* status draft and the caller gets the wrapped error, when it succeeds the
\* store is left as it is; on a workflow that is not draft it throws, issues
\* no gateway call and changes nothing.
C13_ActivateOptimistic ==
  [][ /\ (last'.op = "activateWorkflow" /\ last'.step = "call"
            /\ last'.cid \in DOMAIN workflows)
         => IF workflows[last'.cid].status = DRAFT
              THEN /\ last'.result = "pending"
                   /\ last'.issued = "createWorkflow"
                   /\ workflows' = [workflows EXCEPT ![last'.cid].status = ACTIVE,
                                                     ![last'.cid].updatedAt = now]
              ELSE /\ last'.result = "error"
                   /\ last'.msg = <<"Cannot", "activate", "workflow with status:",
                                    workflows[last'.cid].status>>
                   /\ last'.issued = "none"
                   /\ workflows' = workflows
                   /\ inflight' = inflight
      /\ (last'.op = "activateWorkflow" /\ last'.step = "settle" /\ last'.issued = "threw")
         => /\ last'.result = "error"
            /\ last'.msg[1] = "Failed to activate workflow:"
            /\ last'.cid \in DOMAIN workflows'
            /\ workflows'[last'.cid].status = DRAFT
      /\ (last'.op = "activateWorkflow" /\ last'.step = "settle" /\ last'.issued = "returned")
         => (last'.result = "ok" /\ workflows' = workflows) ]_vars

\* a failed activation of a workflow with one good step, reverted to draft
C13_Witness ==
  /\ last.op = "activateWorkflow" /\ last.step = "settle" /\ last.issued = "threw"
  /\ last.cid \in DOMAIN workflows
  /\ workflows[last.cid].status = DRAFT
  /\ workflows[last.cid].steps = <<[id |-> "s", type |-> "connect", config |-> "object",
                                    order |-> 1]>>
  /\ workflows[last.cid].updatedAt > workflows[last.cid].createdAt

\* C14: pauseWorkflow on an active workflow and resumeWorkflow on a paused one
\* call the gateway first and change nothing in the store in that step.
C14_WorkflowDelegateFirst ==
  [][ \A op \in {"pauseWorkflow", "resumeWorkflow"} :
        (last'.op = op /\ last'.step = "call"
           /\ last'.cid \in DOMAIN workflows
           /\ workflows[last'.cid].status = (IF op = "pauseWorkflow" THEN ACTIVE ELSE PAUSED))
        => /\ last'.issued # "none"
           /\ workflows' = workflows ]_vars

\* C15: every change of a stored workflow's status is draft -> active,
\* active -> paused, paused -> active, active or paused -> completed or
\* failed, or the rollback active -> draft.
WorkflowTransitions ==
  {<<DRAFT, ACTIVE>>, <<ACTIVE, PAUSED>>, <<PAUSED, ACTIVE>>, <<ACTIVE, DRAFT>>,
   <<ACTIVE, COMPLETED>>, <<ACTIVE, FAILED>>, <<PAUSED, COMPLETED>>, <<PAUSED, FAILED>>}

C15_WorkflowStateMachine ==
  [][ \A w \in DOMAIN workflows \cap DOMAIN workflows' :
        workflows'[w].status # workflows[w].status
          => <<workflows[w].status, workflows'[w].status>> \in WorkflowTransitions ]_vars

\* C16: validateWorkflowSteps touches neither a store nor the gateway; its
\* errors hold 'at least one step' exactly for the empty list, 'orders must be
\* unique' exactly when two steps share an order, and for every step exactly
\* the errors of the checks it fails (id, type, order < 1, config), all of
\* them and not only the first; valid is true exactly when errors is empty.
C16_ValidateComplete ==
  [][ last'.op = "validateWorkflowSteps" =>
        LET r == validation'[1]
            Has(i, text) ==
              \E k \in DOMAIN r.errors : r.errors[k] = [step |-> i, text |-> text]
        IN /\ r.valid <=> (r.errors = <<>>)
           /\ Has(0, "Workflow must have at least one step") <=> (givenSteps = <<>>)
           /\ Has(0, "Step orders must be unique")
                <=> \E i, j \in DOMAIN givenSteps :
                      i # j /\ givenSteps[i].order = givenSteps[j].order
           /\ \A i \in DOMAIN givenSteps :
                /\ Has(i, "must have an ID") <=> (givenSteps[i].id = "")
                /\ Has(i, "must have a valid type")
                     <=> (givenSteps[i].type \notin
                            {"connect", "message", "follow_up", "view_profile",
                             "like_post", "comment"})
                /\ Has(i, "must have an order greater than 0") <=> (givenSteps[i].order < 1)
                /\ Has(i, "must have a valid config object")
                     <=> (givenSteps[i].config # "object")
           /\ \A k \in DOMAIN r.errors : r.errors[k].step \in 0..Len(givenSteps)
           /\ UNCHANGED <<campaignVars, leadVars, workflowVars, inflight, givenSteps>> ]_vars

\* two steps sharing order 0, the first also of an unknown type: four errors
C16_Witness ==
  /\ validation # NotRun
  /\ Len(givenSteps) = 2
  /\ givenSteps[1].order = 0 /\ givenSteps[2].order = 0
  /\ givenSteps[1].type = "bogus" /\ givenSteps[2].type = "connect"
  /\ givenSteps[1].id = "s" /\ givenSteps[2].id = "s"
  /\ givenSteps[1].config = "object" /\ givenSteps[2].config = "object"
  /\ Len(validation[1].errors) = 4

\* C17: processLead on a stored lead whose status is not pending throws the
\* precondition error, does not call addLeads and leaves the lead store as it
\* was.
C17_ProcessOnlyPending ==
  [][ (last'.op = "processLead" /\ last'.step = "call"
         /\ last'.cid \in DOMAIN leads
         /\ leads[last'.cid].status # PENDING)
      => /\ last'.result = "error"
         /\ last'.msg = <<"Cannot process lead with status:", leads[last'.cid].status>>
         /\ last'.issued = "none"
         /\ leads' = leads
         /\ inflight' = inflight ]_vars

\* processLead refused on a connected lead
C17_Witness ==
  /\ last.op = "processLead" /\ last.step = "call" /\ last.result = "error"
  /\ last.cid \in DOMAIN leads
  /\ leads[last.cid].status = CONNECTED

\* C18: processLead on a pending lead stores processing and calls addLeads
\* with the batch made of that one lead; when addLeads fails the lead is
\* stored with status pending and the caller gets the wrapped error; when it
\* succeeds processLead writes nothing more, so the status stays as stored.
C18_ProcessOptimistic ==
  [][ /\ (last'.op = "processLead" /\ last'.step = "call"
            /\ last'.cid \in DOMAIN leads
            /\ leads[last'.cid].status = PENDING)
         => /\ last'.result = "pending"
            /\ last'.issued = "addLeads"
            /\ leads' = [leads EXCEPT ![last'.cid].status = PROCESSING,
                                      ![last'.cid].updatedAt = now]
            /\ inflight' = inflight (+) SetToBag({[op |-> "processLead", user |-> "u1",
                                                   cid |-> last'.cid,
                                                   pre |-> <<last'.cid>>]})
      /\ (last'.op = "processLead" /\ last'.step = "settle" /\ last'.issued = "threw")
         => /\ last'.result = "error"
            /\ last'.msg[1] = "Failed to process lead:"
            /\ last'.cid \in DOMAIN leads'
            /\ leads'[last'.cid].status = PENDING
      /\ (last'.op = "processLead" /\ last'.step = "settle" /\ last'.issued = "returned")
         => (last'.result = "ok" /\ leads' = leads) ]_vars

\* a failed processLead, rolled back to pending after the clock moved
C18_Witness ==
  /\ last.op = "processLead" /\ last.step = "settle" /\ last.issued = "threw"
  /\ last.cid \in DOMAIN leads
  /\ leads[last.cid].status = PENDING
  /\ leads[last.cid].updatedAt > leads[last.cid].createdAt

\* C19: a stored lead's status changes only forward along pending ->
\* processing -> connected -> messaged -> replied, or from that path to
\* failed or skipped.
LeadPath == <<PENDING, PROCESSING, CONNECTED, MESSAGED, REPLIED>>

Rank(status) == CHOOSE i \in DOMAIN LeadPath : LeadPath[i] = status

OnPath(status) == \E i \in DOMAIN LeadPath : LeadPath[i] = status

C19_LeadOnlyForward ==
  [][ \A l \in DOMAIN leads \cap DOMAIN leads' :
        leads'[l].status # leads[l].status
          => /\ OnPath(leads[l].status)
             /\ \/ leads'[l].status \in {FAILED, SKIPPED}
                \/ OnPath(leads'[l].status)
                     /\ Rank(leads[l].status) < Rank(leads'[l].status) ]_vars

\* C20: a step of createLead or createLeads that creates a lead stores
\* exactly one new lead, with status pending and the fields of its request,
\* and changes no other lead; createLeads creates the lead of the first
\* element in the call and one more, for the next element, after each await,
\* and returns the created leads in that order once there is one for every
\* element.
SameData(lead, data) ==
  /\ lead.email = data.email /\ lead.name = data.name
  /\ lead.company = data.company /\ lead.profileUrl = data.profileUrl
  /\ lead.metadata = data.metadata

Appears(call) == CopiesIn(call, inflight') > CopiesIn(call, inflight)

C20_CreatedPending ==
  [][ /\ (last'.op \in {"createLead", "createLeads"} /\ leads' # leads)
         => /\ nextLead' = nextLead + 1
            /\ nextLead' \notin DOMAIN leads
            /\ DOMAIN leads' = DOMAIN leads \cup {nextLead'}
            /\ \A l \in DOMAIN leads : leads'[l] = leads[l]
            /\ leads'[nextLead'].status = PENDING
            /\ leads'[nextLead'].id = nextLead'
      /\ (last'.op = "createLeads" /\ last'.step = "call")
         => IF inflight' = inflight
              THEN last'.result = <<>> /\ leads' = leads
              ELSE \E call \in BagToSet(inflight') :
                     /\ Appears(call)
                     /\ call.pre[1] # <<>>
                     /\ call.pre[2] = <<>>
                     /\ call.pre[3] = nextLead'
                     /\ leads' # leads
                     /\ SameData(leads'[nextLead'], call.pre[1][1])
      /\ (last'.op = "createLeads" /\ last'.step = "settle")
         => \E call \in Pending :
              /\ Settled(call)
              /\ LET created == Append(call.pre[2], call.pre[3]) IN
                   IF BagCardinality(inflight') < BagCardinality(inflight)
                     THEN /\ last'.result = created
                          /\ Len(created) = Len(call.pre[1])
                          /\ leads' = leads
                     ELSE /\ Len(created) < Len(call.pre[1])
                          /\ leads' # leads
                          /\ SameData(leads'[nextLead'], call.pre[1][Len(created) + 1])
                          /\ \E next \in BagToSet(inflight') :
                               /\ Appears(next)
                               /\ next.pre = <<call.pre[1], created, nextLead'>> ]_vars

\* createLeads has returned two leads, the second made from the request that
\* carries status replied, and both are stored pending
C20_Witness ==
  /\ last.op = "createLeads" /\ last.step = "settle"
  /\ inflight = EmptyBag
  /\ last.result = <<1, 2>>
  /\ DOMAIN leads = {1, 2}
  /\ leads[1].email = "a@x" /\ leads[1].status = PENDING
  /\ leads[2].name = "n" /\ leads[2].status = PENDING

\* ---------------------------------------------------------------- rate limiter claims
\* the requests of client k among the steps taken so far
RateEntries(k) ==
  {i \in DOMAIN history : history[i].report.op = "rateLimiter" /\ history[i].report.cid = k}

\* fixed windows, read off the history alone: the first request of a client
\* opens a window of RATE_WINDOW_MS, and so does its first request after the
\* end of the window before; -1 while the client has made no request
RECURSIVE WindowEndAfter(_, _)
WindowEndAfter(k, n) ==
  IF n = 0 THEN -1
  ELSE LET before == WindowEndAfter(k, n - 1)
           e == history[n]
       IN IF e.report.op = "rateLimiter" /\ e.report.cid = k /\ e.at > before
            THEN e.at + RATE_WINDOW_MS
            ELSE before

WindowEnd(k) == WindowEndAfter(k, Len(history))

\* the earlier requests of k in the window that is running now
InWindow(k) ==
  IF now > WindowEnd(k) THEN {}
  ELSE {i \in RateEntries(k) : history[i].at >= WindowEnd(k) - RATE_WINDOW_MS}

RejectedBefore(k) == {i \in RateEntries(k) : history[i].report.result = "rejected"}

\* C21: a request is allowed exactly when fewer than RATE_LIMIT requests of the
\* same client came before it in the client's running fixed window: the first
\* RATE_LIMIT requests of a window pass and every further one is rejected.
C21_FirstRequestsAllowed ==
  [][last'.op = "rateLimiter"
       => (last'.result = "allowed" <=> Cardinality(InWindow(last'.cid)) < RATE_LIMIT)]_vars

\* with a limit of two, the third request of a window has been rejected
C21_Witness ==
  /\ last.op = "rateLimiter"
  /\ last.result = "rejected"
  /\ RATE_LIMIT > 1
  /\ Cardinality({i \in RateEntries(last.cid) : history[i].report.result = "allowed"}) > 1

\* C22: a request of a client that has been rejected, made after the end of the
\* window it was rejected in, is allowed and opens a window of its own in which
\* it is the first request, however many requests were rejected before.
C22_FreshWindowAfterRejection ==
  [][(/\ last'.op = "rateLimiter"
      /\ RejectedBefore(last'.cid) # {}
      /\ now > WindowEnd(last'.cid))
       => /\ last'.result = "allowed"
          /\ requestCounts'[last'.cid] = [count |-> 1, resetTime |-> now + RATE_WINDOW_MS]]_vars

\* a client rejected twice has been let in again
C22_Witness ==
  /\ last.op = "rateLimiter"
  /\ last.result = "allowed"
  /\ Cardinality(RejectedBefore(last.cid)) > 1
  /\ requestCounts[last.cid].count = 1

\* what is left of the running window of client k
Remaining(k) == WindowEnd(k) - now

\* C23 as stated: the retryAfter of a rejected request is the remaining time of
\* the client's window in seconds, rounded up, and no more than the window.
C23_RetryAfterWithinWindow ==
  [][(last'.op = "rateLimiter" /\ last'.result = "rejected")
       => /\ last'.msg[1] * MsPerSecond >= Remaining(last'.cid)
          /\ (last'.msg[1] - 1) * MsPerSecond < Remaining(last'.cid)
          /\ last'.msg[1] * MsPerSecond <= RATE_WINDOW_MS]_vars

\* C23: the retryAfter of a rejected request is the remaining time of the
\* client's window in whole seconds, rounded up: it exceeds the remaining time
\* by less than a second, and so the window by less than a second.
C23_RetryAfterRoundedUp ==
  [][(last'.op = "rateLimiter" /\ last'.result = "rejected")
       => /\ last'.msg[1] * MsPerSecond >= Remaining(last'.cid)
          /\ (last'.msg[1] - 1) * MsPerSecond < Remaining(last'.cid)
          /\ Remaining(last'.cid) <= RATE_WINDOW_MS
          /\ (last'.msg[1] - 1) * MsPerSecond < RATE_WINDOW_MS]_vars

\* a request rejected with a retryAfter longer than the window
C23_Witness ==
  /\ last.op = "rateLimiter"
  /\ last.result = "rejected"
  /\ last.msg[1] * MsPerSecond > RATE_WINDOW_MS

\* the specified algorithm run over the first n steps of the history: a fresh
\* window when the client has none or its window has expired, then the count
\* goes up, for rejected requests too
RECURSIVE Specified(_)
Specified(n) ==
  IF n = 0 THEN <<>>
  ELSE LET before == Specified(n - 1)
           e == history[n]
           k == e.report.cid
       IN IF e.report.op # "rateLimiter" THEN before
          ELSE IF k \notin DOMAIN before \/ e.at > before[k].resetTime
            THEN (k :> [count |-> 1, resetTime |-> e.at + RATE_WINDOW_MS]) @@ before
            ELSE [before EXCEPT ![k].count = @ + 1]

\* C24: the limiter has rejected a request exactly when the specified algorithm,
\* run over the same requests at the same times, finds the count after the
\* increment above the limit.
C24_DecisionsAsSpecified ==
  \A n \in DOMAIN history :
    history[n].report.op = "rateLimiter"
      => (history[n].report.result = "rejected"
            <=> Specified(n)[history[n].report.cid].count > RATE_LIMIT)

\* a run with a rejected request at the very end of a window and an allowed one
\* after it
C24_Witness ==
  /\ \E n \in DOMAIN history :
       /\ history[n].report.op = "rateLimiter"
       /\ history[n].report.result = "rejected"
       /\ history[n].at = Specified(n)[history[n].report.cid].resetTime
  /\ last.op = "rateLimiter"
  /\ last.result = "allowed"
  /\ RejectedBefore(last.cid) # {}

\* C25: a request that carries valid credentials of a user is counted under
\* that user's key, and the key of the network origin is used only for a
\* request without an authenticated user.
C25_KeyedByUser ==
  [][last'.op = "request"
       => IF last'.user # "anonymous"
            THEN last'.cid = <<"user", last'.user>>
            ELSE last'.cid[1] = "ip"]_vars

\* the startCampaign calls for campaign c that are suspended in executeCampaign
StartsInFlight(c) ==
  LET calls == {call \in Pending : call.op = "startCampaign" /\ call.cid = c}
  IN BagCardinality([call \in calls |-> CopiesIn(call, inflight)])

\* C26 as stated: a startCampaign call by the owner, made while another
\* startCampaign call for the same campaign is suspended in executeCampaign,
\* reads draft as the first did, writes active and calls executeCampaign too.
C26_SecondStartRaces ==
  [][(/\ last'.op = "startCampaign"
      /\ last'.step = "call"
      /\ StartInFlight(last'.cid)
      /\ ~Foreign(last'.user, last'.cid))
       => last'.result = "pending"]_vars

\* C26: a campaign never has two startCampaign calls suspended in
\* executeCampaign: the status check and the write of active run without
\* suspension, so a second call reads active and is refused.
C26_OneStartInFlight ==
  \A c \in CampaignIds : StartsInFlight(c) <= 1

\* a second startCampaign call has been refused while the first is suspended
C26_Witness ==
  /\ last.op = "startCampaign"
  /\ last.step = "call"
  /\ last.result = "error"
  /\ last.msg = PreconditionMessage("start", ACTIVE)
  /\ StartInFlight(last.cid)

\* the pauseCampaign and resumeCampaign calls of the history that went on to the gateway
Issued ==
  {i \in DOMAIN history :
     /\ history[i].report.op \in {"pauseCampaign", "resumeCampaign"}
     /\ history[i].report.step = "call"
     /\ history[i].report.result = "pending"}

\* the calls of the history that ended with an error
Failures == {i \in DOMAIN history : history[i].report.result = "error"}

LastIssued == history[CHOOSE i \in Issued : \A j \in Issued : j <= i].report

\* C27: once every pauseCampaign and resumeCampaign call on a campaign has
\* returned, and all of them succeeded, the stored status is the one that the
\* call made last writes: paused after a pause, active after a resume.
C27_StatusOfLastCall ==
  (inflight = EmptyBag /\ Issued # {} /\ Failures = {})
    => /\ LastIssued.cid \in campaigns
       /\ heap[LastIssued.cid].status =
            (IF LastIssued.op = "pauseCampaign" THEN PAUSED ELSE ACTIVE)

\* one step of the services' clock is a minute, twice the gateway timeout
TickMs == 2 * GatewayTimeoutMs

\* C28: a startCampaign call is suspended in executeCampaign for no longer than
\* the configured timeout: once the timeout has passed since the call stored
\* startedAt, the call has returned (with the campaign rolled back to draft if
\* the backend did not answer).
C28_StartBoundedByTimeout ==
  \A c \in DOMAIN heap :
    (StartInFlight(c) /\ heap[c].startedAt # Unset)
      => (now - heap[c].startedAt[1]) * TickMs <= GatewayTimeoutMs

\* the operations that call the gateway and let its failure reach their caller
SurfacingOps ==
  {"startCampaign", "pauseCampaign", "resumeCampaign", "activateWorkflow", "processLead"}

\* C29 as stated: whenever the gateway call of a lifecycle operation, delete
\* of a campaign among them, has failed, the operation ends with an error.
C29_FailuresSurface ==
  [][(last'.step = "settle" /\ last'.issued = "threw") => last'.result = "error"]_vars

\* C29: whenever the gateway call of startCampaign, pauseCampaign,
\* resumeCampaign, activateWorkflow or processLead has failed, the operation
\* ends with an error that carries a message and never reports success; only
\* deleteCampaign goes on after a failed cancelCampaign, removes the campaign
\* and returns true.
C29_FailuresSurfaceExceptDelete ==
  [][(last'.step = "settle" /\ last'.issued = "threw")
       => IF last'.op = "deleteCampaign"
            THEN last'.result = "true" /\ last'.cid \notin campaigns'
            ELSE /\ last'.op \in SurfacingOps
                 /\ last'.result = "error"
                 /\ last'.msg # <<>>
                 /\ BagCardinality(inflight') < BagCardinality(inflight)]_vars

\* a resumeCampaign whose gateway call failed has ended with an error
C29_Witness ==
  /\ last.op = "resumeCampaign"
  /\ last.step = "settle"
  /\ last.issued = "threw"
  /\ last.result = "error"

\* the campaign that createCampaign(u, data) is to store under a new id at time t
AsRequested(id, u, data, t) ==
  [id |-> id, userId |-> u, name |-> data.name, description |-> data.description,
   status |-> "draft", platform |-> data.platform, settings |-> data.settings,
   createdAt |-> t, updatedAt |-> t, startedAt |-> <<>>]

Sent(report) == [token |-> report.msg[2], protected |-> report.msg[3]]

C33_ApiKeyAccepted ==
  [][(/\ last'.op = "request"
      /\ Sent(last').protected
      /\ Sent(last').token.header
      /\ Sent(last').token.ak
      /\ last'.result # "429")
       => /\ last'.result = "200"
          /\ last'.user = Sent(last').token.id]_vars

\* C34: right after a call of the rate limiter at time now, the Map holds no
\* entry, of the caller or of any other client, whose window ended before now.
C34_ExpiredPurged ==
  [][last'.op = "rateLimiter"
       => \A clientId \in DOMAIN requestCounts' :
            ~(requestCounts'[clientId].resetTime < now')]_vars

\* a call has swept the entry of another client, counted earlier in the run
C34_Witness ==
  /\ last.op = "rateLimiter"
  /\ \E i \in DOMAIN history :
       /\ history[i].report.op = "rateLimiter"
       /\ history[i].report.cid # last.cid
       /\ history[i].report.cid \notin DOMAIN requestCounts

\* the requests of k allowed earlier in the window that is running now
AllowedInWindow(k) == {i \in InWindow(k) : history[i].report.result = "allowed"}

\* C35: an allowed request carries X-RateLimit-Limit equal to the limit and
\* X-RateLimit-Remaining equal to the limit minus the requests of the client
\* allowed in its running window, this one included; the value is not
\* negative, and it is one less than that of the allowed request of the window
\* just before.
C35_QuotaReported ==
  [][(last'.op = "rateLimiter" /\ last'.result = "allowed")
       => LET earlier == AllowedInWindow(last'.cid)
          IN /\ last'.msg[2] = RATE_LIMIT
             /\ last'.msg[1] = RATE_LIMIT - (Cardinality(earlier) + 1)
             /\ last'.msg[1] >= 0
             /\ \A i \in earlier :
                  /\ history[i].report.msg[1] > last'.msg[1]
                  /\ (\A j \in earlier : j <= i) => history[i].report.msg[1] = last'.msg[1] + 1]_vars

\* the second allowed request of a window has used up a limit of two
C35_Witness ==
  /\ last.op = "rateLimiter"
  /\ last.result = "allowed"
  /\ last.msg[1] = 0
  /\ RATE_LIMIT = 2
  /\ \E i \in DOMAIN history :
       /\ i < Len(history)
       /\ history[i].report.op = "rateLimiter"
       /\ history[i].report.cid = last.cid
       /\ history[i].report.result = "allowed"
       /\ history[i].report.msg[1] = 1

\* C36: getErrorMessage returns, and what it returns is the message of an
\* Error, a string itself, and 'An unknown error occurred' for anything else;
\* so the catch block of a route answers with a status, and the error of a
\* failed gateway call is the one the gateway's catch block builds from the
\* message of the failure.
C36_MessageExtracted ==
  [][/\ last'.op = "getErrorMessage"
          => LET error == last'.msg[1]
             IN /\ last'.result = Returned(IF error.kind = "other"
                                             THEN "An unknown error occurred"
                                             ELSE error.message)
                /\ last'.msg[2] # "none"
     /\ (last'.op \in {"pauseCampaign", "resumeCampaign"} /\ last'.issued = "threw")
          => last'.msg = <<IF last'.op = "pauseCampaign" THEN "Failed to pause campaign:"
                                                        ELSE "Failed to resume campaign:",
                          FetchFailed.message>>]_vars

\* the ids createCampaign has given out whose campaign is no longer stored:
\* only a deleteCampaign that returned true takes a campaign out of the store
Deleted == {c \in 1..nextCampaign : c \notin campaigns}

\* C37: a campaign id that deleteCampaign has removed is never stored again,
\* whatever calls for it were suspended when it was deleted.
C37_DeletedStaysDeleted ==
  [][\A c \in Deleted : c \notin campaigns']_vars

\* C38: a stored campaign that is active or paused has startedAt set, and a
\* stored campaign that is a draft has none.
C38_StartedAtMatchesStatus ==
  \A c \in campaigns :
    /\ heap[c].status \in {ACTIVE, PAUSED} => heap[c].startedAt # Unset
    /\ heap[c].status = DRAFT => heap[c].startedAt = Unset

\* the addLeads requests for lead l that have not been answered
AddLeadsInFlight(l) ==
  LET calls == {call \in Pending : call.op = "processLead" /\ call.cid = l}
  IN BagCardinality([call \in calls |-> CopiesIn(call, inflight)])

\* the addLeads requests for lead l that the gateway has answered with success
AddLeadsSucceeded(l) ==
  {i \in DOMAIN history :
     /\ history[i].report.op = "processLead"
     /\ history[i].report.step = "settle"
     /\ history[i].report.result = "ok"
     /\ history[i].report.cid = l}

\* C39: with createLead and processLead calls only, a processLead call issues
\* an addLeads request for a lead only when none for that lead is in flight
\* and none has succeeded before, so that at most one is in flight at any time.
C39_OneAddLeads ==
  [][/\ (last'.op = "processLead" /\ last'.issued = "addLeads")
          => /\ AddLeadsInFlight(last'.cid) = 0
             /\ AddLeadsSucceeded(last'.cid) = {}
     /\ \A l \in LeadIds : AddLeadsInFlight(l)' <= 1]_vars

\* a processLead call was refused for a lead whose addLeads request has
\* succeeded
C39_Witness ==
  /\ last.op = "processLead"
  /\ last.step = "call"
  /\ last.result = "error"
  /\ last.msg = LeadPreconditionMessage(PROCESSING)
  /\ AddLeadsSucceeded(last.cid) # {}

\* the commands the backend has taken for campaign c, and the last of them
Commands(c) ==
  {i \in DOMAIN history : history[i].report.step = "accept" /\ history[i].report.cid = c}

LastCommand(c) == history[CHOOSE i \in Commands(c) : \A j \in Commands(c) : j <= i].report.op

\* C40: when no call is in flight, and every command of the pauseCampaign and
\* resumeCampaign calls was taken by the backend and answered with success, a
\* started campaign is stored as paused exactly if the last command the
\* backend took for it was a pause.
C40_StoreAgreesWithBackend ==
  \A c \in campaigns :
    (inflight = EmptyBag /\ c \in everActive)
      => (heap[c].status = PAUSED
            <=> (Commands(c) # {} /\ LastCommand(c) = "pauseCampaign"))

====
